---- MODULE Spec2Model ----
(***************************************************************************)
(* Store map explorer (src/App.tsx): the two Supercluster indices, the     *)
(* viewport render pass (updateClusters), the selection effect and the     *)
(* nearby-data lookups of the focused store.                               *)
(*                                                                         *)
(* Geometry.  Longitudes are integers in world pixels at zoom MaxZoom, so  *)
(* the world is Extent * 2^MaxZoom units wide and the clustering radius at *)
(* zoom z is Radius * 2^(MaxZoom - z) units.  All modelled stores lie on   *)
(* one parallel, which every viewport contains, so a position is its       *)
(* longitude and a bounding box is an interval [west, east].  The weighted *)
(* centroid of a cluster is computed with integer division.                *)
(*                                                                         *)
(* Strings built by template literals are modelled as tagged records (see  *)
(* Key): store ids are atoms that contain neither '-' nor the prefix       *)
(* 'selected-', so the four key shapes never collide across shapes.        *)
(***************************************************************************)
EXTENDS Integers, Sequences, FiniteSets, Bags, TLC

\* ------------------------------------------------------------------------
\* Program constants
\* ------------------------------------------------------------------------
Radius == 60
MaxZoom == 16
MinZoom == 0
Extent == 512
ClusterThreshold == 8
ZoomBits == 32

\* ------------------------------------------------------------------------
\* Bounds of the model
\* ------------------------------------------------------------------------
MaxRand == 1
MaxLeaks == 1
MaxStale == 1
MaxPoints == 4

INF == 99

\* null for a Store reference, a Supercluster reference and a map bounds
NoStore == [idx |-> 0, id |-> "", google_lon |-> 0, location_type |-> ""]
NoIndex == [points |-> <<>>, trees |-> <<>>]
NoBounds == [west |-> 1, east |-> 0]

RECURSIVE Pow2(_)
Pow2(n) == IF n <= 0 THEN 1 ELSE 2 * Pow2(n - 1)

Abs(n) == IF n < 0 THEN -n ELSE n

World == Extent * Pow2(MaxZoom)

\* ------------------------------------------------------------------------
\* Supercluster index, as used by the two "new Supercluster({radius: 60,
\* maxZoom: 16, minZoom: 0}) ... cluster.load(points)" effects.
\* A tree node is [x, zoom, id, parent, num]: zoom is the last zoom the node
\* was processed at, id the source index of a point or the id of a cluster,
\* parent the id of the cluster it was merged into (-1: none), num the
\* number of points it stands for.
\* ------------------------------------------------------------------------
RadiusAt(z) == Radius * Pow2(MaxZoom - z)

Within(data, x, r) == {k \in 1..Len(data) : Abs(data[k].x - x) <= r}

RECURSIVE SumNum(_, _)
SumNum(data, S) ==
  IF S = {} THEN 0
  ELSE LET k == CHOOSE e \in S : TRUE IN data[k].num + SumNum(data, S \ {k})

RECURSIVE SumWeighted(_, _)
SumWeighted(data, S) ==
  IF S = {} THEN 0
  ELSE LET k == CHOOSE e \in S : TRUE
       IN data[k].x * data[k].num + SumWeighted(data, S \ {k})

\* Faulty variant: _cluster that does not carry a node without neighbours
\* over to the next zoom.
RECURSIVE ClusterLevelDroppingSingles(_, _, _, _, _)
ClusterLevelDroppingSingles(data, next, i, z, n) ==
  IF i > Len(data) THEN [data |-> data, next |-> next]
  ELSE IF data[i].zoom <= z
  THEN ClusterLevelDroppingSingles(data, next, i + 1, z, n)
  ELSE
    LET nb == {k \in Within(data, data[i].x, RadiusAt(z)) :
                 k # i /\ data[k].zoom > z}
        numPoints == data[i].num + SumNum(data, nb)
        id == (i - 1) * ZoomBits + (z + 1) + n
        wx == data[i].x * data[i].num + SumWeighted(data, nb)
    IN IF numPoints > data[i].num /\ numPoints >= 2
       THEN ClusterLevelDroppingSingles(
              [k \in 1..Len(data) |->
                 IF k = i \/ k \in nb
                 THEN [data[k] EXCEPT !.zoom = z, !.parent = id]
                 ELSE data[k]],
              Append(next, [x |-> wx \div numPoints, zoom |-> INF, id |-> id,
                            parent |-> -1, num |-> numPoints]),
              i + 1, z, n)
       ELSE ClusterLevelDroppingSingles(
              [data EXCEPT ![i].zoom = z], next, i + 1, z, n)

\* Faulty variant: _cluster that counts the merged nodes instead of adding
\* up the points they stand for.
RECURSIVE ClusterLevelCountingNodes(_, _, _, _, _)
ClusterLevelCountingNodes(data, next, i, z, n) ==
  IF i > Len(data) THEN [data |-> data, next |-> next]
  ELSE IF data[i].zoom <= z
  THEN ClusterLevelCountingNodes(data, next, i + 1, z, n)
  ELSE
    LET nb == {k \in Within(data, data[i].x, RadiusAt(z)) :
                 k # i /\ data[k].zoom > z}
        numPoints == data[i].num + Cardinality(nb)
        id == (i - 1) * ZoomBits + (z + 1) + n
        wx == data[i].x * data[i].num + SumWeighted(data, nb)
    IN IF numPoints > data[i].num /\ numPoints >= 2
       THEN ClusterLevelCountingNodes(
              [k \in 1..Len(data) |->
                 IF k = i \/ k \in nb
                 THEN [data[k] EXCEPT !.zoom = z, !.parent = id]
                 ELSE data[k]],
              Append(next, [x |-> wx \div numPoints, zoom |-> INF, id |-> id,
                            parent |-> -1, num |-> numPoints]),
              i + 1, z, n)
       ELSE ClusterLevelCountingNodes(
              [data EXCEPT ![i].zoom = z],
              Append(next, [data[i] EXCEPT !.zoom = z]),
              i + 1, z, n)

\* _cluster(tree, zoom): one greedy merge pass over the nodes of zoom + 1.
\* Returns the nodes of zoom + 1 with their zoom marks and parent ids
\* updated, and the nodes of zoom.  With minPoints = 2 a node that has no
\* unprocessed neighbour is carried over unchanged.
RECURSIVE ClusterLevel(_, _, _, _, _)
ClusterLevel(data, next, i, z, n) ==
  IF i > Len(data) THEN [data |-> data, next |-> next]
  ELSE IF data[i].zoom <= z THEN ClusterLevel(data, next, i + 1, z, n)
  ELSE
    LET nb == {k \in Within(data, data[i].x, RadiusAt(z)) :
                 k # i /\ data[k].zoom > z}
        numPoints == data[i].num + SumNum(data, nb)
        id == (i - 1) * ZoomBits + (z + 1) + n
        wx == data[i].x * data[i].num + SumWeighted(data, nb)
    IN IF numPoints > data[i].num /\ numPoints >= 2
       THEN ClusterLevel(
              [k \in 1..Len(data) |->
                 IF k = i \/ k \in nb
                 THEN [data[k] EXCEPT !.zoom = z, !.parent = id]
                 ELSE data[k]],
              Append(next, [x |-> wx \div numPoints, zoom |-> INF, id |-> id,
                            parent |-> -1, num |-> numPoints]),
              i + 1, z, n)
       ELSE ClusterLevel(
              [data EXCEPT ![i].zoom = z],
              Append(next, [data[i] EXCEPT !.zoom = z]),
              i + 1, z, n)

RECURSIVE LoadLevels(_, _, _)
LoadLevels(trees, z, n) ==
  IF z < MinZoom THEN trees
  ELSE LET res == ClusterLevel(trees[z + 1], <<>>, 1, z, n)
       IN LoadLevels([trees EXCEPT ![z + 1] = res.data, ![z] = res.next],
                     z - 1, n)

\* load(points): the raw points are the tree of zoom MaxZoom + 1, then every
\* zoom from MaxZoom down to MinZoom is clustered from the zoom above it.
Supercluster(points) ==
  LET tree == [i \in 1..Len(points) |->
                 [x |-> points[i].google_lon, zoom |-> INF, id |-> i,
                  parent |-> -1, num |-> 1]]
  IN [points |-> points,
      trees |-> LoadLevels([z \in MinZoom..(MaxZoom + 1) |->
                              IF z = MaxZoom + 1 THEN tree ELSE <<>>],
                           MaxZoom, Len(points))]

\* A node as a GeoJSON feature: a cluster feature, or the input point.
Feature(index, node) ==
  IF node.num > 1
  THEN [cluster |-> TRUE, id |-> node.id, point_count |-> node.num,
        coords |-> node.x, store |-> NoStore]
  ELSE [cluster |-> FALSE, id |-> -1, point_count |-> 0,
        coords |-> index.points[node.id].google_lon,
        store |-> index.points[node.id]]

LimitZoom(z) ==
  IF z < MinZoom THEN MinZoom
  ELSE IF z > MaxZoom + 1 THEN MaxZoom + 1 ELSE z

RECURSIVE SelectFeatures(_, _, _, _)
SelectFeatures(index, data, keep, i) ==
  IF i > Len(data) THEN <<>>
  ELSE IF i \in keep
       THEN <<Feature(index, data[i])>> \o SelectFeatures(index, data, keep, i + 1)
       ELSE SelectFeatures(index, data, keep, i + 1)

\* getClusters(bbox, zoom): the nodes of the zoom's tree inside the bbox.
getClusters(index, bbox, zoom) ==
  LET data == index.trees[LimitZoom(zoom)]
  IN SelectFeatures(index, data,
                    {k \in 1..Len(data) :
                       bbox.west <= data[k].x /\ data[k].x <= bbox.east}, 1)

OriginId(index, clusterId) == (clusterId - Len(index.points)) \div ZoomBits
OriginZoom(index, clusterId) == (clusterId - Len(index.points)) % ZoomBits

\* getChildren(clusterId): the nodes of the origin zoom within the radius of
\* the origin node whose parent is the cluster.  The library throws
\* 'No cluster with the specified id.' where this returns <<>>.
getChildren(index, clusterId) ==
  LET oz == OriginZoom(index, clusterId)
      oi == OriginId(index, clusterId) + 1
  IN IF clusterId < Len(index.points) \/ oz \notin DOMAIN index.trees
     THEN <<>>
     ELSE LET data == index.trees[oz]
          IN IF oi > Len(data) THEN <<>>
             ELSE SelectFeatures(index, data,
                    {k \in Within(data, data[oi].x, RadiusAt(oz - 1)) :
                       data[k].parent = clusterId}, 1)

\* getClusterExpansionZoom(clusterId): from the zoom below the origin zoom,
\* one zoom further for as long as the cluster has a single child.
RECURSIVE ExpansionZoom(_, _, _)
ExpansionZoom(index, clusterId, zoom) ==
  IF zoom > MaxZoom THEN zoom
  ELSE LET children == getChildren(index, clusterId)
       IN IF Len(children) # 1 THEN zoom + 1
          ELSE ExpansionZoom(index, children[1].id, zoom + 1)

getClusterExpansionZoom(index, clusterId) ==
  ExpansionZoom(index, clusterId, OriginZoom(index, clusterId) - 1)

\* ------------------------------------------------------------------------
\* Input data.  A Store keeps the fields the map logic reads; idx is the
\* position of the record in the loaded array and stands for the identity
\* of the record object (two rows of the file may carry the same id).
\* ------------------------------------------------------------------------
Store(i, id, lon, lt) ==
  [idx |-> i, id |-> id, google_lon |-> lon, location_type |-> lt]

ClumpLon == 125 * Pow2(7) * 1000

\* Nine stores of one neighbourhood (eight in a mall, one on the street) and
\* two distant stores whose rows carry the same id.
Catalog ==
  << Store(1, "s1", ClumpLon, "mall"),
     Store(2, "s2", ClumpLon + 100, "mall"),
     Store(3, "s3", ClumpLon + 200, "mall"),
     Store(4, "s4", ClumpLon + 300, "mall"),
     Store(5, "s5", ClumpLon + 5000, "mall"),
     Store(6, "s6", ClumpLon + 5100, "mall"),
     Store(7, "s7", ClumpLon + 5200, "mall"),
     Store(8, "s8", ClumpLon + 5300, "mall"),
     Store(9, "s9", ClumpLon + 40000, "street"),
     Store(10, "d", 2000000, "street"),
     Store(11, "d", 30000000, "mall") >>

\* What loadStoresFromCSV can resolve to: the parsed file, or [] on failure.
Datasets == {Catalog, <<>>}

\* The files of the export: three stores of which two rows carry the same
\* id, and three stores of three ids.
ExportDatasets ==
  { << Store(1, "d", 2000000, "street"),
       Store(2, "d", 30000000, "mall"),
       Store(3, "s1", ClumpLon, "kiosk") >>,
    << Store(1, "s1", 2000000, "street"),
       Store(2, "s2", 30000000, "mall"),
       Store(3, "s3", ClumpLon, "mall") >> }

\* A file with nine mall stores and one street store in one neighbourhood:
\* the malls alone still make a cluster of more than ClusterThreshold.
ZoomIds == <<"s1", "s2", "s3", "s4", "s5", "s6", "s7", "s8", "s9", "d">>

ZoomCatalog ==
  [i \in 1..10 |->
     Store(i, ZoomIds[i], ClumpLon + 100 * i,
           IF i = 10 THEN "street" ELSE "mall")]

ZoomDatasets == {ZoomCatalog}

Queries == {"", "mall", "street", "zzz"}

\* Viewports: bounds (or none yet) and the zoom in half levels, so that
\* Math.floor has something to floor.
Boxes ==
  { [west |-> 0, east |-> World],
    [west |-> ClumpLon - 10000, east |-> ClumpLon + 50000] }

HalfZooms == {1, 19, 34}

Floor(halfZoom) == halfZoom \div 2

InitialView == [bounds |-> [west |-> ClumpLon - 10000, east |-> ClumpLon + 50000],
                zoom |-> 22]

RandStreams == 0..MaxRand

\* The n-th Math.random() of a pass.  A pass draws from one of a few
\* streams: stream 0 returns the same value at every call, the streams
\* 1..MaxRand return values that differ at every call and between streams.
MathRandom(stream, n) ==
  IF stream = 0 THEN 0 ELSE stream + MaxRand * (n - 1)

\* ------------------------------------------------------------------------
\* Markers.  A marker is the mapboxgl.Marker object together with what its
\* click listener captured; a key is a key of clusterMarkersRef.
\* ------------------------------------------------------------------------
StoreMarker(store, coords, isSelectedStore) ==
  [kind |-> "store", selected |-> isSelectedStore, store |-> store,
   cluster |-> -1, coords |-> coords, label |-> 0]

ClusterMarker(clusterId, coords, count) ==
  [kind |-> "cluster", selected |-> FALSE, store |-> NoStore,
   cluster |-> clusterId, coords |-> coords, label |-> count]

\* `${store.id}`, `${store.id}-${Math.random()}`, `selected-${store.id}`
\* and the numeric cluster id.
Key(t, id, n) == [t |-> t, id |-> id, n |-> n]
IdKey(store) == Key("id", store.id, 0)
RandomKey(store, r) == Key("random", store.id, r)
SelectedKey(store) == Key("selected", store.id, 0)
ClusterKey(clusterId) == Key("cluster", "", clusterId)

Range(f) == {f[k] : k \in DOMAIN f}

\* The markers held in a marker map, as a bag (one per key).
Held(markers) ==
  [m \in Range(markers) |-> Cardinality({k \in DOMAIN markers : markers[k] = m})]

MapSet(markers, key, marker) ==
  [k \in DOMAIN markers \cup {key} |-> IF k = key THEN marker ELSE markers[k]]

RECURSIVE SeqToBag(_)
SeqToBag(s) ==
  IF s = <<>> THEN EmptyBag ELSE SetToBag({Head(s)}) (+) SeqToBag(Tail(s))

NoMarkers == [k \in {} |-> ClusterMarker(0, 0, 0)]

\* ------------------------------------------------------------------------
\* State
\* ------------------------------------------------------------------------
VARIABLES
  stores,              \* useState: the loaded records
  isLoading,           \* useState
  query,               \* useState: the search text
  filteredStoresRef,   \* useRef: the latest filteredStores
  clusterRef,          \* useRef: index over stores
  filteredClusterRef,  \* useRef: index over filteredStores
  selectedStore,       \* useState and selectedStoreRef: the focused record
  mapRef,              \* useRef: TRUE when the mapboxgl.Map exists
  view,                \* the map's bounds and zoom
  clusterMarkersRef,   \* useRef: key -> marker
  mapMarkers,          \* the markers added to the map and not removed (bag)
  similarStores,       \* useState
  nearbyPlaces,        \* useState
  nearbyCounts,        \* useState
  nearbyLoading,       \* useState
  nearbyError,         \* useState
  lookup,              \* where fetchNearbyData of the current focus stands
  stale,               \* fetchNearbyData calls aborted and not yet settled
  controllers,         \* the AbortController of every unsettled fetchNearbyData
  responses,           \* how the two fetches of the current lookup came out
  event,               \* the handler that ran last
  added,               \* markers the last rendering handler added to the map
  removed,             \* markers the last rendering handler removed from it
  preFocus,            \* the Clustered rendering left when focus was set
  sheet,               \* the table the served CSV file was written from
  response,            \* what fetch() and response.text() produce
  loaded,              \* the promise of loadStoresFromCSV
  quoted,              \* a field value written quoted on a line
  raw,                 \* a line of any shape
  tokens,              \* parseCSVLine of one of these lines
  poiCountsCacheRef,   \* useRef: Map of store id to POI counts
  exportCacheRef,      \* useRef: key and rows of the last built export
  exportData,          \* useState: the rows handed to the CSV link
  isExporting,         \* useState
  exporting,           \* the buildExportRows call that awaits its fetches
  requested,           \* store ids of the nearby_places requests of a call
  answers,             \* the sets of counts the service returned, by store id
  returned,            \* the last buildExportRows call that returned
  listenerCluster,     \* the index the aggregate markers' listeners hold
  lastCall,            \* the last library call of an aggregate marker
  probe,               \* an index and what was read from it
  sidebarTab,          \* useState: the tab of the store sidebar
  poiMarkersRef,       \* useRef: place id -> POI marker
  poiMarkers,          \* the POI markers added to the map and not removed (bag)
  selectedFilters,     \* useState: the values selected in the four filters
  faceted              \* stores, query, filterType and their filteredStores

renderVars == <<stores, isLoading, query, filteredStoresRef, clusterRef,
                filteredClusterRef, selectedStore, mapRef, view,
                clusterMarkersRef, mapMarkers>>
lookupVars == <<similarStores, nearbyPlaces, nearbyCounts, nearbyLoading,
                nearbyError, lookup, stale, controllers, responses>>
historyVars == <<event, added, removed, preFocus>>
ingestVars == <<sheet, response, loaded, quoted, raw, tokens>>
exportVars == <<poiCountsCacheRef, exportCacheRef, exportData, isExporting,
                exporting, requested, answers, returned>>
probeVars == <<listenerCluster, lastCall, probe>>
poiVars == <<sidebarTab, poiMarkersRef, poiMarkers>>
facetVars == <<selectedFilters, faceted>>
vars == <<renderVars, lookupVars, historyVars, ingestVars, exportVars,
          probeVars, poiVars, facetVars>>

\* ------------------------------------------------------------------------
\* filteredStores (useMemo) for filterType 'location_type'; a query is blank
\* or a whole facet word, for which includes() is equality.
\* ------------------------------------------------------------------------
RECURSIVE SelectStores(_, _)
SelectStores(list, q) ==
  IF list = <<>> THEN <<>>
  ELSE IF Head(list).location_type = q
       THEN <<Head(list)>> \o SelectStores(Tail(list), q)
       ELSE SelectStores(Tail(list), q)

filteredStores(list, q) == IF q = "" THEN list ELSE SelectStores(list, q)

\* The index of every point set the model can load, built once.
PointSets ==
  {filteredStores(d, q) :
     d \in Datasets \cup ExportDatasets \cup ZoomDatasets, q \in Queries}
    \ {<<>>}
Indices == [points \in PointSets |-> Supercluster(points)]

\* The "Initialize clustering" effect: no index is built on zero stores and
\* the previous one is kept.
BaseIndex(list, old) == IF Len(list) = 0 THEN old ELSE Indices[list]

\* Faulty variant: the effect without its early return on zero stores.
FilteredIndexOnZeroPoints(list) ==
  IF Len(list) = 0 THEN Supercluster(list) ELSE Indices[list]

\* The "Create filtered cluster index" effect.
FilteredIndex(list) == IF Len(list) = 0 THEN NoIndex ELSE Indices[list]

\* filteredClusterRef.current || clusterRef.current
ActiveCluster(fcl, cl) == IF fcl # NoIndex THEN fcl ELSE cl

\* ------------------------------------------------------------------------
\* updateClusters
\* ------------------------------------------------------------------------
\* expandCluster(cId): the leaves below a cluster, in the order the
\* recursion reaches them.
RECURSIVE expandCluster(_, _)
RECURSIVE ExpandChildren(_, _, _)
ExpandChildren(index, children, i) ==
  IF i > Len(children) THEN <<>>
  ELSE (IF children[i].cluster
        THEN expandCluster(index, children[i].id)
        ELSE <<children[i]>>) \o ExpandChildren(index, children, i + 1)

\* Faulty variant: expandCluster that does not recurse into sub-clusters.
expandClusterOneLevel(index, cId) ==
  SelectSeq(getChildren(index, cId), LAMBDA child : ~child.cluster)

expandCluster(index, cId) == ExpandChildren(index, getChildren(index, cId), 1)

\* Faulty variant: the aggregate marker already at ClusterThreshold stores.
RenderItemsFromThreshold(index, feature) ==
  IF feature.cluster /\ feature.point_count >= ClusterThreshold
  THEN << [how |-> "aggregate", f |-> feature] >>
  ELSE IF feature.cluster
  THEN LET leaves == expandCluster(index, feature.id)
       IN [i \in 1..Len(leaves) |-> [how |-> "expanded", f |-> leaves[i]]]
  ELSE << [how |-> "point", f |-> feature] >>

\* What the clusters.forEach body renders for one feature: the features that
\* get a marker, an aggregate one for the cluster itself or store markers.
RenderItems(index, feature) ==
  IF feature.cluster /\ feature.point_count > ClusterThreshold
  THEN << [how |-> "aggregate", f |-> feature] >>
  ELSE IF feature.cluster /\ feature.point_count <= ClusterThreshold
  THEN LET leaves == expandCluster(index, feature.id)
       IN [i \in 1..Len(leaves) |-> [how |-> "expanded", f |-> leaves[i]]]
  ELSE << [how |-> "point", f |-> feature] >>

RECURSIVE AllRenderItems(_, _, _)
AllRenderItems(index, clusters, i) ==
  IF i > Len(clusters) THEN <<>>
  ELSE RenderItems(index, clusters[i]) \o AllRenderItems(index, clusters, i + 1)

\* The marker and the key of the j-th rendered item; an expanded store's key
\* takes the next Math.random() of the pass.
ItemMarker(item) ==
  IF item.how = "aggregate"
  THEN ClusterMarker(item.f.id, item.f.coords, item.f.point_count)
  ELSE StoreMarker(item.f.store, item.f.coords, FALSE)

ItemKey(items, j, stream) ==
  IF items[j].how = "aggregate" THEN ClusterKey(items[j].f.id)
  ELSE IF items[j].how = "expanded"
  THEN RandomKey(items[j].f.store,
                 MathRandom(stream,
                   Cardinality({i \in 1..j : items[i].how = "expanded"})))
  ELSE IdKey(items[j].f.store)

\* clusterMarkersRef.current.set(key, marker) for every item, in order.
RECURSIVE SetAll(_, _, _, _)
SetAll(markers, items, j, stream) ==
  IF j > Len(items) THEN markers
  ELSE SetAll(MapSet(markers, ItemKey(items, j, stream), ItemMarker(items[j])),
              items, j + 1, stream)

Rendering(markers, surface, add, rem) ==
  [markers |-> markers, surface |-> surface, added |-> add, removed |-> rem]

Untouched(markers, surface) == Rendering(markers, surface, EmptyBag, EmptyBag)

\* The body of updateClusters once its guards have passed: the old markers
\* are removed and the marker map cleared, then the nodes in view are
\* rendered.
ClusteredPass(activeCluster, fstores, vw, markers, surface, stream) ==
  LET cleared == surface (-) Held(markers)
  IN IF Len(fstores) = 0
     THEN Rendering(NoMarkers, cleared, EmptyBag, Held(markers))
     ELSE IF vw.bounds = NoBounds
     THEN Rendering(NoMarkers, cleared, EmptyBag, Held(markers))
     ELSE LET clusters == getClusters(activeCluster, vw.bounds, Floor(vw.zoom))
              items == AllRenderItems(activeCluster, clusters, 1)
              created == SeqToBag([j \in 1..Len(items) |-> ItemMarker(items[j])])
          IN Rendering(SetAll(NoMarkers, items, 1, stream),
                       cleared (+) created, created, Held(markers))

\* Faulty variant: updateClusters without "if (selectedStoreRef.current) return".
updateClustersWhileSelected(map, fcl, cl, sel, fstores, vw, markers, surface, stream) ==
  IF ~map \/ ActiveCluster(fcl, cl) = NoIndex THEN Untouched(markers, surface)
  ELSE ClusteredPass(ActiveCluster(fcl, cl), fstores, vw, markers, surface, stream)

\* Faulty variant: updateClusters without the removal of the old markers.
updateClustersKeepingOld(map, fcl, cl, sel, fstores, vw, markers, surface, stream) ==
  IF ~map \/ ActiveCluster(fcl, cl) = NoIndex THEN Untouched(markers, surface)
  ELSE IF sel # NoStore THEN Untouched(markers, surface)
  ELSE LET r == ClusteredPass(ActiveCluster(fcl, cl), fstores, vw, NoMarkers,
                              surface, stream)
       IN Rendering([k \in DOMAIN markers \cup DOMAIN r.markers |->
                       IF k \in DOMAIN r.markers THEN r.markers[k] ELSE markers[k]],
                    r.surface, r.added, EmptyBag)

\* updateClusters(): the marker map and the map's markers after the call.
updateClusters(map, fcl, cl, sel, fstores, vw, markers, surface, stream) ==
  IF ~map \/ ActiveCluster(fcl, cl) = NoIndex THEN Untouched(markers, surface)
  ELSE IF sel # NoStore THEN Untouched(markers, surface)
  ELSE ClusteredPass(ActiveCluster(fcl, cl), fstores, vw, markers, surface, stream)

\* Markers on the map that the marker map does not hold.
Leaked(markers, surface) ==
  BagCardinality(surface) - Cardinality(DOMAIN markers)

\* ------------------------------------------------------------------------
\* Nearby-data service: the bodies of the two responses for a store id.
\* ------------------------------------------------------------------------
NearbyAlfamarts(id) == [stores |-> <<[near |-> id]>>, count |-> 1]
\* A place of the nearby_places response for a store id.
Place(id, lon, near) == [id |-> id, lon |-> lon, near |-> near]

\* Two places per store; the two places the service returns for the store
\* s1 carry the same place id.
NearbyPlaces(id) ==
  [stores |-> <<Place("p1", 1, id), Place(IF id = "s1" THEN "p1" ELSE "p2", 2, id)>>,
   counts |-> <<[near |-> id]>>]

\* ------------------------------------------------------------------------
\* The POI markers: clearPoiMarkers and the effect that renders the nearby
\* places while the 'nearby' tab is open.  Of the four tabs 'description'
\* stands for the three that are not 'nearby'; the class of the marker of
\* the selected place is not modelled.
\* ------------------------------------------------------------------------
Tabs == {"description", "nearby"}

PoiMarker(place) == [kind |-> "poi", place |-> place]

NoPoiMarkers == [k \in {} |-> PoiMarker(Place("", 0, ""))]

\* nearbyPlaces.forEach: a marker is added to the map for every place and
\* stored under place.id.
RECURSIVE PlaceMarkers(_, _, _)
PlaceMarkers(places, markers, surface) ==
  IF places = <<>> THEN [markers |-> markers, surface |-> surface]
  ELSE PlaceMarkers(Tail(places),
                    MapSet(markers, Head(places).id, PoiMarker(Head(places))),
                    surface (+) SetToBag({PoiMarker(Head(places))}))

\* The cleanup of the POI marker effect and its next run: clearPoiMarkers
\* removes the markers held in poiMarkersRef, then the places are rendered
\* if the map exists, a store is selected and the tab is 'nearby'.
PoiMarkerEffect(map, sel, tab, places, markers, surface) ==
  IF ~map \/ sel = NoStore \/ tab # "nearby"
  THEN [markers |-> NoPoiMarkers, surface |-> surface (-) Held(markers)]
  ELSE PlaceMarkers(places, NoPoiMarkers, surface (-) Held(markers))

Nearby(sim, places, counts, loading, error) ==
  [similarStores |-> sim, nearbyPlaces |-> places, nearbyCounts |-> counts,
   nearbyLoading |-> loading, nearbyError |-> error]

\* Faulty variant: a success path that leaves nearbyLoading as it is.
LookupResolvedStillLoading(cur, id) ==
  Nearby(NearbyAlfamarts(id).stores, NearbyPlaces(id).stores,
         NearbyPlaces(id).counts, cur.nearbyLoading, cur.nearbyError)

\* fetchNearbyData after both responses are parsed.
LookupResolved(cur, id) ==
  Nearby(NearbyAlfamarts(id).stores, NearbyPlaces(id).stores,
         NearbyPlaces(id).counts, FALSE, cur.nearbyError)

\* Faulty variant: the catch block without "if (error.name === 'AbortError') return".
LookupRejectedAbortAsFailure(cur, errorName, aborted) ==
  LET caught == Nearby(<<>>, <<>>, <<>>, cur.nearbyLoading, TRUE)
  IN IF aborted THEN caught ELSE [caught EXCEPT !.nearbyLoading = FALSE]

\* Faulty variant: the finally block without "if (!controller.signal.aborted)".
LookupRejectedAlwaysSettles(cur, errorName, aborted) ==
  LET caught == IF errorName = "AbortError" THEN cur
                ELSE Nearby(<<>>, <<>>, <<>>, cur.nearbyLoading, TRUE)
  IN [caught EXCEPT !.nearbyLoading = FALSE]

\* Faulty variant: the catch block reporting the failure without clearing
\* the results.
LookupRejectedKeepingResults(cur, errorName, aborted) ==
  LET caught == IF errorName = "AbortError" THEN cur
                ELSE [cur EXCEPT !.nearbyError = TRUE]
  IN IF aborted THEN caught ELSE [caught EXCEPT !.nearbyLoading = FALSE]

\* The catch and finally blocks of fetchNearbyData, entered with the name of
\* the error thrown and the state of controller.signal.aborted.
LookupRejected(cur, errorName, aborted) ==
  LET caught == IF errorName = "AbortError" THEN cur
                ELSE Nearby(<<>>, <<>>, <<>>, cur.nearbyLoading, TRUE)
  IN IF aborted THEN caught ELSE [caught EXCEPT !.nearbyLoading = FALSE]

\* new AbortController(): its one signal is handed to both fetches, so each
\* entry records signal.aborted as the nearby_alfamarts fetch and as the
\* nearby_places fetch see it, and the await at which its fetchNearbyData
\* stood when it was aborted.
NewController == [similar |-> FALSE, places |-> FALSE, at |-> "all"]

Aborted(controller) == controller.similar /\ controller.places

\* Faulty variant: an effect cleanup that aborts nothing.
AbortNothing(cs, current) == cs

\* The effect cleanup, controller.abort(): the controller of the current
\* lookup is the last one created; one that has settled is no longer held.
Abort(cs, current) ==
  IF current = "idle" THEN cs
  ELSE [cs EXCEPT ![Len(cs)] =
                    [similar |-> TRUE, places |-> TRUE, at |-> current]]

Without(cs, i) == SubSeq(cs, 1, i - 1) \o SubSeq(cs, i + 1, Len(cs))

\* The two fetches of a lookup: not settled, resolved with an OK status,
\* resolved with another status, or rejected.
Pending == [similar |-> "pending", places |-> "pending"]
BothOk == [similar |-> "ok", places |-> "ok"]

\* The ways "await Promise.all" and the response.ok test fail: a fetch
\* rejects, whatever the other one has done by then, or both resolve and one
\* of the statuses is not OK.
FailedFetches ==
  {o \in [similar : {"pending", "ok", "notok", "error"},
          places : {"pending", "ok", "notok", "error"}] :
     \/ o.similar = "error" \/ o.places = "error"
     \/ /\ o.similar # "pending" /\ o.places # "pending"
        /\ o # BothOk}

NearbyNow ==
  Nearby(similarStores, nearbyPlaces, nearbyCounts, nearbyLoading, nearbyError)

SetNearby(n) ==
  \E set \in {n} :
    /\ similarStores' = set.similarStores
    /\ nearbyPlaces' = set.nearbyPlaces
    /\ nearbyCounts' = set.nearbyCounts
    /\ nearbyLoading' = set.nearbyLoading
    /\ nearbyError' = set.nearbyError

\* ------------------------------------------------------------------------
\* utils/csvParser: strings and numbers
\*
\* A string is a sequence of symbols.  The characters that trim, split,
\* parseCSVLine and parseFloat look at are one symbol each (comma, double
\* quote, line feed, carriage return, space, digits, sign, point); a run of
\* other characters (a word such as google_lat or Infinity) is one symbol.
\* The inputs hold no exponent and no word that is the concatenation of
\* other symbols, so two strings are equal iff their sequences are.
\*
\* A JavaScript value is a record: undefined, a string, or a number, which
\* is NaN, an infinity (n is its sign) or the decimal n / 10^k.
\* ------------------------------------------------------------------------
Undefined == [t |-> "undefined", s |-> <<>>, n |-> 0, k |-> 0]
String(s) == [t |-> "string", s |-> s, n |-> 0, k |-> 0]
Number(n, k) == [t |-> "number", s |-> <<>>, n |-> n, k |-> k]
NaN == [t |-> "NaN", s |-> <<>>, n |-> 0, k |-> 0]
Infinite(sign) == [t |-> "Infinity", s |-> <<>>, n |-> sign, k |-> 0]

WhiteSpace == {" ", "\t", "\n", "\r"}
DigitSymbols == <<"0", "1", "2", "3", "4", "5", "6", "7", "8", "9">>
Digits == Range(DigitSymbols)
DigitValue(c) == (CHOOSE i \in DOMAIN DigitSymbols : DigitSymbols[i] = c) - 1

\* String.prototype.trim
RECURSIVE TrimStart(_)
TrimStart(s) ==
  IF s # <<>> /\ Head(s) \in WhiteSpace THEN TrimStart(Tail(s)) ELSE s

RECURSIVE TrimEnd(_)
TrimEnd(s) ==
  IF s # <<>> /\ s[Len(s)] \in WhiteSpace
  THEN TrimEnd(SubSeq(s, 1, Len(s) - 1)) ELSE s

trim(s) == TrimEnd(TrimStart(s))

\* String.prototype.split(separator) for a one-character separator: the
\* pieces between the separators, one piece for a string without any.
RECURSIVE SplitFrom(_, _, _)
SplitFrom(s, separator, piece) ==
  IF s = <<>> THEN <<piece>>
  ELSE IF Head(s) = separator
  THEN <<piece>> \o SplitFrom(Tail(s), separator, <<>>)
  ELSE SplitFrom(Tail(s), separator, Append(piece, Head(s)))

split(s, separator) == SplitFrom(s, separator, <<>>)

\* Array.prototype.indexOf on the header names, 0-based, -1 when absent,
\* and fields[index], undefined outside the array.
indexOf(headers, name) ==
  LET hits == {i \in DOMAIN headers : headers[i] = name}
  IN IF hits = {} THEN -1
     ELSE (CHOOSE i \in hits : \A j \in hits : i <= j) - 1

At(fields, index) ==
  IF index + 1 \in DOMAIN fields THEN String(fields[index + 1]) ELSE Undefined

\* parseFloat(value): the value as a string, leading white space skipped,
\* then the longest prefix that is a decimal literal: a sign, then Infinity
\* or digits with an optional fraction.  NaN when there is no such prefix.
RECURSIVE DigitPrefix(_)
DigitPrefix(s) ==
  IF s # <<>> /\ Head(s) \in Digits
  THEN <<Head(s)>> \o DigitPrefix(Tail(s)) ELSE <<>>

RECURSIVE StripZeros(_)
StripZeros(digits) ==
  IF digits # <<>> /\ digits[Len(digits)] = "0"
  THEN StripZeros(SubSeq(digits, 1, Len(digits) - 1)) ELSE digits

RECURSIVE Decimal(_)
Decimal(digits) ==
  IF digits = <<>> THEN 0
  ELSE 10 * Decimal(SubSeq(digits, 1, Len(digits) - 1))
         + DigitValue(digits[Len(digits)])

ToText(value) == IF value.t = "string" THEN value.s ELSE <<value.t>>

parseFloat(value) ==
  LET text == TrimStart(ToText(value))
      signed == text # <<>> /\ Head(text) \in {"-", "+"}
      sign == IF signed /\ Head(text) = "-" THEN -1 ELSE 1
      body == IF signed THEN Tail(text) ELSE text
      whole == DigitPrefix(body)
      rest == SubSeq(body, Len(whole) + 1, Len(body))
      fraction == IF rest # <<>> /\ Head(rest) = "."
                  THEN DigitPrefix(Tail(rest)) ELSE <<>>
      kept == StripZeros(fraction)
  IN IF body # <<>> /\ Head(body) = "Infinity" THEN Infinite(sign)
     ELSE IF whole = <<>> /\ fraction = <<>> THEN NaN
     ELSE Number(sign * Decimal(whole \o kept), Len(kept))

isNaN(number) == number.t = "NaN"

\* a || b
Falsy(value) ==
  \/ value.t \in {"undefined", "NaN"}
  \/ value.t = "string" /\ value.s = <<>>
  \/ value.t = "number" /\ value.n = 0

Or(a, b) == IF Falsy(a) THEN b ELSE a

\* ------------------------------------------------------------------------
\* utils/csvParser: parseCSVLine, parseCSV, loadStoresFromCSV
\* ------------------------------------------------------------------------
\* Faulty variant: a tokenizer in which every double quote toggles the
\* quoted state.
RECURSIVE ScanLineWithoutEscape(_, _, _, _, _)
ScanLineWithoutEscape(line, i, fields, current, insideQuotes) ==
  IF i > Len(line) THEN Append(fields, current)
  ELSE IF line[i] = "\""
  THEN ScanLineWithoutEscape(line, i + 1, fields, current, ~insideQuotes)
  ELSE IF line[i] = "," /\ ~insideQuotes
  THEN ScanLineWithoutEscape(line, i + 1, Append(fields, current), <<>>,
                             insideQuotes)
  ELSE ScanLineWithoutEscape(line, i + 1, fields, Append(current, line[i]),
                             insideQuotes)

\* Faulty variant: a tokenizer that separates fields at every comma.
RECURSIVE ScanLineSplittingQuoted(_, _, _, _, _)
ScanLineSplittingQuoted(line, i, fields, current, insideQuotes) ==
  IF i > Len(line) THEN Append(fields, current)
  ELSE IF line[i] = "\""
  THEN IF insideQuotes /\ i + 1 <= Len(line) /\ line[i + 1] = "\""
       THEN ScanLineSplittingQuoted(line, i + 2, fields,
                                    Append(current, "\""), insideQuotes)
       ELSE ScanLineSplittingQuoted(line, i + 1, fields, current,
                                    ~insideQuotes)
  ELSE IF line[i] = ","
  THEN ScanLineSplittingQuoted(line, i + 1, Append(fields, current), <<>>,
                               insideQuotes)
  ELSE ScanLineSplittingQuoted(line, i + 1, fields, Append(current, line[i]),
                               insideQuotes)

\* The for loop of parseCSVLine from position i (1-based), then the final
\* fields.push(current).
RECURSIVE ScanLine(_, _, _, _, _)
ScanLine(line, i, fields, current, insideQuotes) ==
  IF i > Len(line) THEN Append(fields, current)
  ELSE IF line[i] = "\""
  THEN IF insideQuotes /\ i + 1 <= Len(line) /\ line[i + 1] = "\""
       THEN ScanLine(line, i + 2, fields, Append(current, "\""), insideQuotes)
       ELSE ScanLine(line, i + 1, fields, current, ~insideQuotes)
  ELSE IF line[i] = "," /\ ~insideQuotes
  THEN ScanLine(line, i + 1, Append(fields, current), <<>>, insideQuotes)
  ELSE ScanLine(line, i + 1, fields, Append(current, line[i]), insideQuotes)

parseCSVLine(line) == ScanLine(line, 1, <<>>, <<>>, FALSE)

\* The fields of a Store, by the way parseCSV fills them.
CoordinateFields == {"google_lat", "google_lon"}
PlainFields == {"id", "name", "category", "address"}
DefaultedFields == {"phone", "location_type", "parking", "store_size"}
NumericFields ==
  {"rating", "T_TL", "M_TL", "F_TL",
   "M_00_04", "M_05_09", "M_10_14", "M_15_19", "M_20_24", "M_25_29",
   "M_30_34", "M_35_39", "M_40_44", "M_45_49", "M_50_54", "M_55_59",
   "M_60_64", "M_65_69", "M_70_74", "M_75Plus",
   "F_00_04", "F_05_09", "F_10_14", "F_15_19", "F_20_24", "F_25_29",
   "F_30_34", "F_35_39", "F_40_44", "F_45_49", "F_50_54", "F_55_59",
   "F_60_64", "F_65_69", "F_70_74", "F_75Plus"}
StoreFields ==
  CoordinateFields \cup PlainFields \cup DefaultedFields \cup NumericFields
    \cup {"expenditure_band"}

\* Faulty variant: a numeric field read without "|| 0".
StoreOfLineWithoutDefault(headers, fields) ==
  [name \in StoreFields |->
     LET got == At(fields, indexOf(headers, <<name>>))
     IN IF name \in CoordinateFields \cup NumericFields THEN parseFloat(got)
        ELSE IF name \in DefaultedFields THEN Or(got, String(<<>>))
        ELSE IF name = "expenditure_band"
        THEN Or(got, Or(At(fields, indexOf(headers, <<"expenditure">>)),
                        String(<<>>)))
        ELSE got]

\* The object literal "store" built from the fields of one line.
StoreOfLine(headers, fields) ==
  [name \in StoreFields |->
     LET got == At(fields, indexOf(headers, <<name>>))
     IN IF name \in CoordinateFields THEN parseFloat(got)
        ELSE IF name \in NumericFields THEN Or(parseFloat(got), Number(0, 0))
        ELSE IF name \in DefaultedFields THEN Or(got, String(<<>>))
        ELSE IF name = "expenditure_band"
        THEN Or(got, Or(At(fields, indexOf(headers, <<"expenditure">>)),
                        String(<<>>)))
        ELSE got]

\* Faulty variant: a loop that puts each accepted record in front of the
\* earlier ones.
RECURSIVE ParseLinesNewestFirst(_, _, _, _)
ParseLinesNewestFirst(lines, i, headers, list) ==
  IF i > Len(lines) THEN list
  ELSE IF trim(lines[i]) = <<>>
  THEN ParseLinesNewestFirst(lines, i + 1, headers, list)
  ELSE LET row == StoreOfLine(headers, parseCSVLine(lines[i]))
       IN IF ~isNaN(row["google_lat"]) /\ ~isNaN(row["google_lon"])
          THEN ParseLinesNewestFirst(lines, i + 1, headers, <<row>> \o list)
          ELSE ParseLinesNewestFirst(lines, i + 1, headers, list)

\* The for loop of parseCSV from line i (1-based; line 1 is the header).
RECURSIVE ParseLines(_, _, _, _)
ParseLines(lines, i, headers, list) ==
  IF i > Len(lines) THEN list
  ELSE IF trim(lines[i]) = <<>> THEN ParseLines(lines, i + 1, headers, list)
  ELSE LET row == StoreOfLine(headers, parseCSVLine(lines[i]))
       IN IF ~isNaN(row["google_lat"]) /\ ~isNaN(row["google_lon"])
          THEN ParseLines(lines, i + 1, headers, Append(list, row))
          ELSE ParseLines(lines, i + 1, headers, list)

parseCSV(csvText) ==
  LET lines == split(trim(csvText), "\n")
  IN IF Len(lines) < 2 THEN <<>>
     ELSE ParseLines(lines, 2, split(lines[1], ","), <<>>)

\* A settled promise of loadStoresFromCSV.
Resolved(value) == [state |-> "resolved", value |-> value]
Rejected == [state |-> "rejected", value |-> <<>>]
Unsettled == [state |-> "pending", value |-> <<>>]

\* What the try block throws on: fetch rejects, the status is not OK, or
\* response.text() rejects.
Throws(res) == res.fetch = "rejected" \/ ~res.ok \/ res.body = "rejected"

\* Faulty variant: loadStoresFromCSV without its catch block.
loadStoresFromCSVWithoutCatch(res) ==
  IF Throws(res) THEN Rejected ELSE Resolved(parseCSV(res.text))

\* loadStoresFromCSV(): res is what fetch and response.text() produce.
loadStoresFromCSV(res) ==
  IF Throws(res) THEN Resolved(<<>>) ELSE Resolved(parseCSV(res.text))

\* ------------------------------------------------------------------------
\* The served file.  A sheet has four columns, here in the order id,
\* google_lat, google_lon, rating, of which the first and the last may go
\* under another header name, and two rows of field values; it is written
\* with its columns in the order sheet.order, the first row cut to its first
\* sheet.cut fields, the lines of sheet.blank between the two rows, every
\* line ended by sheet.eol, a field that holds a comma or a double quote
\* written quoted.
\* ------------------------------------------------------------------------
RECURSIVE Doubled(_)
Doubled(value) ==
  IF value = <<>> THEN <<>>
  ELSE (IF Head(value) = "\"" THEN <<"\"", "\"">> ELSE <<Head(value)>>)
         \o Doubled(Tail(value))

Quote(value) == <<"\"">> \o Doubled(value) \o <<"\"">>

Written(value) ==
  IF \E i \in DOMAIN value : value[i] \in {",", "\""} THEN Quote(value)
  ELSE value

RECURSIVE Join(_, _)
Join(pieces, separator) ==
  IF pieces = <<>> THEN <<>>
  ELSE IF Len(pieces) = 1 THEN pieces[1]
  ELSE pieces[1] \o separator \o Join(Tail(pieces), separator)

Identity == [i \in 1..4 |-> i]
\* The column orders: the twelve even permutations, in which every column
\* stands at every place, the last one included.
Inversions(o) == {p \in (1..4) \X (1..4) : p[1] < p[2] /\ o[p[1]] > o[p[2]]}
Orders ==
  {o \in [1..4 -> 1..4] :
     /\ \A i, j \in 1..4 : o[i] = o[j] => i = j
     /\ Cardinality(Inversions(o)) % 2 = 0}

GoodRow == << <<"b", ",", "c">>, <<"1", ".", "5">>, <<"2">>, <<"3">> >>

Sheets ==
  [names : {<<id, "google_lat", "google_lon", rating>> :
              id \in {"id", "expenditure"},
              rating \in {"rating", "stars", "T_TL", "expenditure_band"}},
   rows : {<<<< id, lat, lon, rating >>, GoodRow>> :
             id \in {<<"a">>, <<>>},
             lat \in {<<"7">>, <<"-", "6", ".", "2">>, <<>>, <<"x">>,
                      <<"Infinity">>, <<"4", "x">>},
             lon \in {<<"1", "0", "6">>, <<"x">>},
             rating \in {<<"4", ".", "5">>, <<>>, <<"x">>, <<"0">>,
                         <<"-", "3">>}},
   order : Orders,
   eol : {<<"\n">>, <<"\r", "\n">>},
   cut : {2, 4},
   blank : {<<>>, << <<>> >>, << <<" ">> >>}]

PlainSheet ==
  [names |-> <<"id", "google_lat", "google_lon", "rating">>,
   rows |-> <<<< <<"a">>, <<"7">>, <<"1", "0", "6">>, <<"4", ".", "5">> >>,
              GoodRow>>,
   order |-> Identity, eol |-> <<"\n">>, cut |-> 4, blank |-> <<>>]

Shown(sh, r) == IF r = 1 THEN sh.cut ELSE 4

HeaderLine(sh) == Join([i \in 1..4 |-> <<sh.names[sh.order[i]]>>], <<",">>)

RowLine(sh, r) ==
  Join([i \in 1..Shown(sh, r) |-> Written(sh.rows[r][sh.order[i]])], <<",">>)

CsvText(sh) ==
  Join(<<HeaderLine(sh), RowLine(sh, 1)>>
         \o sh.blank
         \o <<RowLine(sh, 2)>>,
       sh.eol) \o sh.eol

\* fetch resolved with status 200 and the text of the file.
Served(text) ==
  [fetch |-> "resolved", ok |-> TRUE, body |-> "resolved", text |-> text]

NoResponse ==
  [fetch |-> "pending", ok |-> FALSE, body |-> "pending", text |-> <<>>]

\* The other outcomes: a network error, a status that is not OK, a body
\* that cannot be read, an empty file, a file of a header line only.
OtherResponses ==
  { [fetch |-> "rejected", ok |-> FALSE, body |-> "pending", text |-> <<>>],
    [fetch |-> "resolved", ok |-> FALSE, body |-> "pending", text |-> <<>>],
    [fetch |-> "resolved", ok |-> TRUE, body |-> "rejected", text |-> <<>>],
    Served(<<>>),
    Served(HeaderLine(PlainSheet) \o <<"\n">>) }

\* The field values of the quote round trip and the rest of their line.
QuotedValues ==
  UNION {[1..n -> {"a", "b", ",", "\""}] : n \in 0..5}

Neighbours == {<<>>, << <<"x">> >>}

NoQuoted == [value |-> <<>>, before |-> <<>>, after |-> <<>>]

QuotedLine(q) ==
  Join(q.before \o <<Quote(q.value)>> \o q.after, <<",">>)

\* The lines given to parseCSVLine as they are: every line of up to
\* MaxLine symbols, quotes balanced or not.  A line holds no line feed, which
\* stands for no line.
MaxLine == 6
RawLines == UNION {[1..n -> {"a", ",", "\""}] : n \in 0..MaxLine}
NoRaw == <<"\n">>

NoTokens == [state |-> "pending", list |-> <<>>]

\* ------------------------------------------------------------------------
\* buildExportRows (the later App.tsx): the rows of the CSV export
\* ------------------------------------------------------------------------
POI_CATEGORY_COLUMNS ==
  << "Amusement and Recreation", "Auto and Gasoline Service Stations",
     "Automotive Dealers", "Children's Activities",
     "Civic and Social Organizations", "Eating Places", "Education",
     "Entertainment", "Fashion and Apparel", "Grocery Stores", "Healthcare",
     "Hotels", "Industrial and Commercial Zones", "Retail", "Salon/Spa",
     "Services", "Sports and Fitness Centers", "Transportation" >>

\* Array.prototype.sort() on store ids: the order of their strings.
IdOrder == <<"d", "s1", "s2", "s3", "s4", "s5", "s6", "s7", "s8", "s9">>
IdRank(id) == CHOOSE i \in DOMAIN IdOrder : IdOrder[i] = id

RECURSIVE Insert(_, _)
Insert(sorted, id) ==
  IF sorted = <<>> THEN <<id>>
  ELSE IF IdRank(id) < IdRank(Head(sorted)) THEN <<id>> \o sorted
  ELSE <<Head(sorted)>> \o Insert(Tail(sorted), id)

RECURSIVE SortIds(_)
SortIds(list) ==
  IF list = <<>> THEN <<>> ELSE Insert(SortIds(Tail(list)), Head(list).id)

\* [...filteredStores.map((store) => store.id)].sort().join('|')
exportKey(list) ==
  LET ids == SortIds(list) IN Join([i \in DOMAIN ids |-> <<ids[i]>>], <<"|">>)

\* A Record<string, number> of counts is a function from the category names
\* it holds; {} is the function of no name.
NoCounts == <<>>

\* What fetch and response.json() of nearby_places produce: an OK response
\* with counts or without, a response that is not OK (its body, with counts
\* or without, is never read), a rejection.
ServiceCounts ==
  ("Eating Places" :> 2) @@ ("Retail" :> 1) @@ ("Banks" :> 4)

PlacesReplies ==
  { [fetch |-> "resolved", ok |-> TRUE, counts |-> ServiceCounts],
    [fetch |-> "resolved", ok |-> TRUE, counts |-> NoCounts],
    [fetch |-> "resolved", ok |-> FALSE, counts |-> ServiceCounts],
    [fetch |-> "resolved", ok |-> FALSE, counts |-> NoCounts],
    [fetch |-> "rejected", ok |-> FALSE, counts |-> NoCounts] }

\* Faulty variant: the body is read whatever the status of the response.
PoiCountsOfAnyStatus(reply) ==
  IF reply.fetch = "resolved" THEN reply.counts ELSE NoCounts

\* poiCounts after the try block of one store.
PoiCountsOf(reply) ==
  IF reply.fetch = "resolved" /\ reply.ok THEN reply.counts ELSE NoCounts

\* The result of the async callback of one store: awaiting its fetch, or
\* resolved with poiCounts.
Waiting == [state |-> "waiting", poiCounts |-> NoCounts]
Got(poiCounts) == [state |-> "done", poiCounts |-> poiCounts]

\* baseRow of one store: the base fields of the modelled Store and
\* poiCounts?.[category] ?? 0 for each category.
StoreRow(store, poiCounts) ==
  [id |-> store.id, location_type |-> store.location_type,
   poi |-> [category \in Range(POI_CATEGORY_COLUMNS) |->
              IF category \in DOMAIN poiCounts THEN poiCounts[category]
              ELSE 0]]

\* The counts the service has returned for a store id so far.
Answered(given, id) == IF id \in DOMAIN given THEN given[id] ELSE {}

NoExportCache == [set |-> FALSE, key |-> <<>>, data |-> <<>>]
NoExporting ==
  [active |-> FALSE, stores |-> <<>>, key |-> <<>>, got |-> <<>>, failed |-> {}]
NoReturn ==
  [called |-> FALSE, cached |-> FALSE, stores |-> <<>>, rows |-> <<>>,
   answers |-> <<>>, failed |-> {}]

\* Faulty variant: the cached rows are never reused.
CacheMiss(cache, key) == FALSE

\* exportCacheRef.current?.key === exportKey
CacheHit(cache, key) == cache.set /\ cache.key = key

\* Faulty variant: the click handler without the isExporting test.
ExportDisabledWhenEmpty(busy, list) == Len(list) = 0

\* isExporting || filteredStores.length === 0
ExportDisabled(busy, list) == busy \/ Len(list) = 0

\* A fetch that rejected or whose response is not OK.
FailedReply(reply) == reply.fetch = "rejected" \/ ~reply.ok

NoExport ==
  /\ poiCountsCacheRef = <<>>
  /\ exportCacheRef = NoExportCache
  /\ exportData = <<>>
  /\ isExporting = FALSE
  /\ exporting = NoExporting
  /\ requested = <<>>
  /\ answers = <<>>
  /\ returned = NoReturn

\* ------------------------------------------------------------------------
\* Initial state: the component is mounted, the mount effects have run (the
\* map exists when a mapbox token is configured) and the file is loading.
\* No aggregate marker was clicked yet and no index is under test.
\* ------------------------------------------------------------------------
NoCall == [index |-> NoIndex, id |-> -1, view |-> InitialView, zoom |-> -1]
NoProbe == [index |-> NoIndex, zoom |-> -1, nodes |-> <<>>, node |-> 0,
            leaves |-> <<>>, items |-> <<>>]

\* ------------------------------------------------------------------------
\* filteredStores of the later App.tsx: the text query and the four
\* multi-select filters.  A facet value of a store is a JavaScript value, a
\* string of symbols or undefined; the letters "A" and "B" are the upper
\* case of "a" and "b".  The filter type 'name_address' (a regular
\* expression built from the query) is not modelled.
\* ------------------------------------------------------------------------
FilterKeys == {"location_type", "store_size", "parking", "expenditure_band"}

FilterTypes == {"location_type", "store_size", "parking", "expenditure"}

Lower(c) == IF c = "A" THEN "a" ELSE IF c = "B" THEN "b" ELSE c

toLowerCase(s) == [i \in DOMAIN s |-> Lower(s[i])]

\* String.prototype.includes
includes(s, part) ==
  \E i \in 0..(Len(s) - Len(part)) : SubSeq(s, i + 1, i + Len(part)) = part

\* Array.prototype.includes
Contains(list, value) == \E i \in DOMAIN list : list[i] = value

FacetStore(id, locationType, storeSize, parking, expenditureBand) ==
  [id |-> id, location_type |-> locationType, store_size |-> storeSize,
   parking |-> parking, expenditure_band |-> expenditureBand]

\* store.location_type?.trim() || '', and so for the other three fields
TrimmedFacet(store, key) ==
  IF store[key].t = "undefined" THEN <<>> ELSE trim(store[key].s)

\* The field a filter type searches.
SearchField(filterType) ==
  IF filterType = "expenditure" THEN "expenditure_band" ELSE filterType

\* matchesSearch of a store
MatchesSearch(store, normalizedQuery, filterType) ==
  IF normalizedQuery = <<>> THEN TRUE
  ELSE IF store[SearchField(filterType)].t = "undefined" THEN FALSE
  ELSE includes(toLowerCase(store[SearchField(filterType)].s), normalizedQuery)

\* Faulty variant: a store passes when one of the filters lets it pass.
MatchesMultiFiltersAnyFilter(store, selected) ==
  \/ (Len(selected.location_type) = 0
        \/ Contains(selected.location_type, TrimmedFacet(store, "location_type")))
  \/ (Len(selected.store_size) = 0
        \/ Contains(selected.store_size, TrimmedFacet(store, "store_size")))
  \/ (Len(selected.parking) = 0
        \/ Contains(selected.parking, TrimmedFacet(store, "parking")))
  \/ (Len(selected.expenditure_band) = 0
        \/ Contains(selected.expenditure_band,
                    TrimmedFacet(store, "expenditure_band")))

\* matchesMultiFilters of a store
MatchesMultiFilters(store, selected) ==
  /\ (Len(selected.location_type) = 0
        \/ Contains(selected.location_type, TrimmedFacet(store, "location_type")))
  /\ (Len(selected.store_size) = 0
        \/ Contains(selected.store_size, TrimmedFacet(store, "store_size")))
  /\ (Len(selected.parking) = 0
        \/ Contains(selected.parking, TrimmedFacet(store, "parking")))
  /\ (Len(selected.expenditure_band) = 0
        \/ Contains(selected.expenditure_band,
                    TrimmedFacet(store, "expenditure_band")))

\* stores.filter(callback): the callback returns false when the search does
\* not match, and matchesMultiFilters otherwise.
RECURSIVE FilterStores(_, _, _, _)
FilterStores(list, normalizedQuery, filterType, selected) ==
  IF list = <<>> THEN <<>>
  ELSE IF ~MatchesSearch(Head(list), normalizedQuery, filterType)
  THEN FilterStores(Tail(list), normalizedQuery, filterType, selected)
  ELSE IF MatchesMultiFilters(Head(list), selected)
  THEN <<Head(list)>> \o FilterStores(Tail(list), normalizedQuery, filterType,
                                      selected)
  ELSE FilterStores(Tail(list), normalizedQuery, filterType, selected)

\* The useMemo: normalizedQuery = query.trim().toLowerCase().
filteredStoresFaceted(list, q, filterType, selected) ==
  FilterStores(list, toLowerCase(trim(q)), filterType, selected)

\* filterOptions: the trimmed non-empty values of a field of the stores.
filterOptions(list, key) ==
  {TrimmedFacet(list[i], key) : i \in DOMAIN list} \ {<<>>}

\* The most values selected in one filter.
MaxSelected == 2

\* The state of clearAllMultiFilters and of useState.
NoFilters == [key \in FilterKeys |-> <<>>]

\* The updater of toggleMultiSelectFilter.
Toggle(prev, filterKey, value) ==
  [prev EXCEPT ![filterKey] =
     IF Contains(@, value) THEN SelectSeq(@, LAMBDA item : item # value)
     ELSE Append(@, value)]

\* Four stores whose fields are padded, upper case, empty or undefined, in
\* two orders, and no store.
FacetCatalog ==
  << FacetStore("s1", String(<<" ", "a">>), String(<<"a">>), String(<<"a">>),
                String(<<"a">>)),
     FacetStore("s2", String(<<"b">>), String(<<"a", " ">>), Undefined,
                String(<<"b">>)),
     FacetStore("s3", String(<<"A">>), String(<<"b">>), String(<<>>),
                String(<<"a">>)),
     FacetStore("s4", Undefined, String(<<"b">>), String(<<"a">>),
                Undefined) >>

FacetLists ==
  {FacetCatalog, [i \in 1..4 |-> FacetCatalog[5 - i]], <<>>}

FacetQueries == {<<>>, <<" ">>, <<"a">>, <<"A", " ">>, <<"b">>}

Faceted(list, q, filterType, selected) ==
  [stores |-> list, query |-> q, filterType |-> filterType,
   filteredStores |-> filteredStoresFaceted(list, q, filterType, selected)]

NoFacets ==
  /\ selectedFilters = NoFilters
  /\ faceted = Faceted(<<>>, <<>>, "location_type", NoFilters)

NoPoi ==
  /\ sidebarTab = "description"
  /\ poiMarkersRef = NoPoiMarkers
  /\ poiMarkers = EmptyBag

\* The POI marker effect after a handler that set the tab and may have
\* changed selectedStore or nearbyPlaces; a handler that would leave more
\* than MaxLeaks POI markers outside poiMarkersRef is not explored.
RunPoiEffect(tab) ==
  /\ sidebarTab' = tab
  /\ \E done \in {PoiMarkerEffect(mapRef, selectedStore', tab, nearbyPlaces',
                                   poiMarkersRef, poiMarkers)} :
       /\ Leaked(done.markers, done.surface) <= MaxLeaks
       /\ poiMarkersRef' = done.markers
       /\ poiMarkers' = done.surface

NoProbes ==
  /\ listenerCluster = NoIndex
  /\ lastCall = NoCall
  /\ probe = NoProbe

\* "const activeCluster = filteredClusterRef.current || clusterRef.current":
\* the click listeners of the aggregate markers of a pass close over the
\* index the pass read.  A pass that gets past the guards of updateClusters
\* removes the aggregate markers of the pass before it, and their listeners
\* with them.
Capture(map, fcl, cl, sel) ==
  listenerCluster' =
    IF ~map \/ ActiveCluster(fcl, cl) = NoIndex \/ sel # NoStore
    THEN listenerCluster
    ELSE IF \E m \in BagToSet(added') : m.kind = "cluster"
    THEN ActiveCluster(fcl, cl)
    ELSE NoIndex

NoPreFocus == [valid |-> FALSE, created |-> EmptyBag, keys |-> {},
               view |-> InitialView, query |-> ""]

Mounted ==
  /\ stores = <<>>
  /\ isLoading = TRUE
  /\ query = ""
  /\ filteredStoresRef = <<>>
  /\ clusterRef = NoIndex
  /\ filteredClusterRef = NoIndex
  /\ selectedStore = NoStore
  /\ mapRef \in BOOLEAN
  /\ view = InitialView
  /\ clusterMarkersRef = NoMarkers
  /\ mapMarkers = EmptyBag
  /\ similarStores = <<>>
  /\ nearbyPlaces = <<>>
  /\ nearbyCounts = <<>>
  /\ nearbyLoading = FALSE
  /\ nearbyError = FALSE
  /\ lookup = "idle"
  /\ stale = 0
  /\ controllers = <<>>
  /\ responses = Pending
  /\ event = "mount"
  /\ added = EmptyBag
  /\ removed = EmptyBag
  /\ preFocus = NoPreFocus

Init ==
  /\ Mounted
  /\ NoExport
  /\ NoProbes
  /\ NoPoi
  /\ NoFacets
  /\ sheet = PlainSheet
  /\ response = NoResponse
  /\ loaded = Unsettled
  /\ quoted = NoQuoted
  /\ raw = NoRaw
  /\ tokens = NoTokens

\* The marker map, the map and the record of the handler's marker traffic
\* after a rendering; a handler that would leave more than MaxLeaks markers
\* outside the marker map is not explored.
Render(r) ==
  \E done \in {r} :
    /\ Leaked(done.markers, done.surface) <= MaxLeaks
    /\ clusterMarkersRef' = done.markers
    /\ mapMarkers' = done.surface
    /\ added' = done.added
    /\ removed' = done.removed

\* preFocus is kept only while the viewport and the filter are the ones it
\* recorded.
KeepPreFocus(vw, q) ==
  preFocus' = IF preFocus.valid /\ selectedStore # NoStore
                 /\ preFocus.view = vw /\ preFocus.query = q
              THEN preFocus ELSE NoPreFocus

\* loadStores resolves: setStores, then the index effects and the
\* "update clusters when filtered stores change" effect.
Load(dataset, stream) ==
  /\ isLoading
  /\ stores' = dataset
  /\ isLoading' = FALSE
  /\ filteredStoresRef' = filteredStores(dataset, query)
  /\ clusterRef' = BaseIndex(dataset, clusterRef)
  /\ filteredClusterRef' = FilteredIndex(filteredStoresRef')
  /\ Render(updateClusters(mapRef, filteredClusterRef', clusterRef',
                           selectedStore, filteredStoresRef', view,
                           clusterMarkersRef, mapMarkers, stream))
  /\ event' = "load"
  /\ UNCHANGED ingestVars
  /\ UNCHANGED exportVars
  /\ UNCHANGED poiVars
  /\ UNCHANGED facetVars
  /\ Capture(mapRef, filteredClusterRef', clusterRef', selectedStore)
  /\ UNCHANGED <<lastCall, probe>>
  /\ KeepPreFocus(view, query)
  /\ UNCHANGED <<query, selectedStore, mapRef, view>>
  /\ UNCHANGED lookupVars

\* The search box changes: filteredStores, its ref, the filtered index and
\* the "update clusters when filtered stores change" effect, in this order.
SetQuery(q, stream) ==
  /\ q # query
  /\ query' = q
  /\ filteredStoresRef' = filteredStores(stores, q)
  /\ filteredClusterRef' = FilteredIndex(filteredStoresRef')
  /\ Render(updateClusters(mapRef, filteredClusterRef', clusterRef,
                           selectedStore, filteredStoresRef', view,
                           clusterMarkersRef, mapMarkers, stream))
  /\ event' = "filter"
  /\ UNCHANGED ingestVars
  /\ UNCHANGED exportVars
  /\ UNCHANGED poiVars
  /\ UNCHANGED facetVars
  /\ Capture(mapRef, filteredClusterRef', clusterRef, selectedStore)
  /\ UNCHANGED <<lastCall, probe>>
  /\ KeepPreFocus(view, q)
  /\ UNCHANGED <<stores, isLoading, clusterRef, selectedStore, mapRef, view>>
  /\ UNCHANGED lookupVars

\* Faulty variant: handleMapUpdate rendering the viewport of the previous event.
ViewportChangeStaleView(bounds, zoom, stream) ==
  /\ mapRef
  /\ view' = [bounds |-> bounds, zoom |-> zoom]
  /\ Render(updateClusters(mapRef, filteredClusterRef, clusterRef,
                           selectedStore, filteredStoresRef, view,
                           clusterMarkersRef, mapMarkers, stream))
  /\ event' = "viewport"
  /\ UNCHANGED ingestVars
  /\ UNCHANGED exportVars
  /\ UNCHANGED poiVars
  /\ UNCHANGED facetVars
  /\ Capture(mapRef, filteredClusterRef, clusterRef, selectedStore)
  /\ UNCHANGED <<lastCall, probe>>
  /\ KeepPreFocus(view', query)
  /\ UNCHANGED <<stores, isLoading, query, filteredStoresRef, clusterRef,
                 filteredClusterRef, selectedStore, mapRef>>
  /\ UNCHANGED lookupVars

\* A 'move' or 'moveend' event of the map: handleMapUpdate.
ViewportChange(bounds, zoom, stream) ==
  /\ mapRef
  /\ view' = [bounds |-> bounds, zoom |-> zoom]
  /\ Render(updateClusters(mapRef, filteredClusterRef, clusterRef,
                           selectedStore, filteredStoresRef, view',
                           clusterMarkersRef, mapMarkers, stream))
  /\ event' = "viewport"
  /\ UNCHANGED ingestVars
  /\ UNCHANGED exportVars
  /\ UNCHANGED poiVars
  /\ UNCHANGED facetVars
  /\ Capture(mapRef, filteredClusterRef, clusterRef, selectedStore)
  /\ UNCHANGED <<lastCall, probe>>
  /\ KeepPreFocus(view', query)
  /\ UNCHANGED <<stores, isLoading, query, filteredStoresRef, clusterRef,
                 filteredClusterRef, selectedStore, mapRef>>
  /\ UNCHANGED lookupVars

\* The cleanup of the nearby-data effect: controller.abort().
AbortLookup ==
  /\ lookup # "idle" => stale < MaxStale
  /\ stale' = IF lookup # "idle" THEN stale + 1 ELSE stale

\* setSelectedStore(store) with a store: the selection effect clears the
\* marker map and shows the selected marker, the nearby-data effect aborts
\* the previous lookups and starts fetchNearbyData.
FocusOn(store) ==
  /\ store # NoStore
  /\ store # selectedStore
  /\ selectedStore' = store
  /\ LET marker == StoreMarker(store, store.google_lon, TRUE)
     IN Render(IF mapRef
               THEN Rendering(MapSet(NoMarkers, SelectedKey(store), marker),
                              (mapMarkers (-) Held(clusterMarkersRef))
                                (+) SetToBag({marker}),
                              SetToBag({marker}), Held(clusterMarkersRef))
               ELSE Untouched(clusterMarkersRef, mapMarkers))
  /\ AbortLookup
  /\ controllers' = Append(Abort(controllers, lookup), NewController)
  /\ responses' = Pending
  /\ lookup' = "all"
  /\ SetNearby([NearbyNow EXCEPT !.nearbyLoading = TRUE, !.nearbyError = FALSE])
  /\ event' = "focus"
  /\ UNCHANGED ingestVars
  /\ UNCHANGED exportVars
  /\ listenerCluster' = IF mapRef THEN NoIndex ELSE listenerCluster
  /\ UNCHANGED <<lastCall, probe>>
  /\ preFocus' = IF selectedStore = NoStore
                 THEN [valid |-> TRUE, created |-> added,
                       keys |-> DOMAIN clusterMarkersRef,
                       view |-> view, query |-> query]
                 ELSE preFocus
  /\ UNCHANGED <<stores, isLoading, query, filteredStoresRef, clusterRef,
                 filteredClusterRef, mapRef, view>>
  /\ RunPoiEffect("description")
  /\ UNCHANGED facetVars

\* A click on a store marker of the map.
ClickStoreMarker(marker) ==
  /\ marker \in BagToSet(mapMarkers)
  /\ marker.kind = "store"
  /\ FocusOn(marker.store)

\* handleSimilarStoreSelect: the first loaded store with the id of the
\* chosen entry of the similar-stores list.
SelectSimilar(id) ==
  /\ selectedStore # NoStore
  /\ similarStores # <<>>
  /\ \E i \in 1..Len(stores) :
       /\ stores[i].id = id
       /\ \A j \in 1..(i - 1) : stores[j].id # id
       /\ FocusOn(stores[i])

\* Faulty variant: the selection effect without updateClusters() on deselection.
DefocusWithoutRender(stream) ==
  /\ selectedStore # NoStore
  /\ selectedStore' = NoStore
  /\ Render(Untouched(clusterMarkersRef, mapMarkers))
  /\ AbortLookup
  /\ controllers' = Abort(controllers, lookup)
  /\ responses' = Pending
  /\ lookup' = "idle"
  /\ SetNearby(Nearby(<<>>, <<>>, <<>>, FALSE, FALSE))
  /\ event' = "defocus"
  /\ UNCHANGED ingestVars
  /\ UNCHANGED exportVars
  /\ UNCHANGED probeVars
  /\ UNCHANGED preFocus
  /\ UNCHANGED <<stores, isLoading, query, filteredStoresRef, clusterRef,
                 filteredClusterRef, mapRef, view>>
  /\ RunPoiEffect(sidebarTab)
  /\ UNCHANGED facetVars

\* setSelectedStore(null): the selection effect runs updateClusters, the
\* nearby-data effect aborts the lookups and clears the results.
Defocus(stream) ==
  /\ selectedStore # NoStore
  /\ selectedStore' = NoStore
  /\ Render(updateClusters(mapRef, filteredClusterRef, clusterRef,
                           selectedStore', filteredStoresRef, view,
                           clusterMarkersRef, mapMarkers, stream))
  /\ AbortLookup
  /\ controllers' = Abort(controllers, lookup)
  /\ responses' = Pending
  /\ lookup' = "idle"
  /\ SetNearby(Nearby(<<>>, <<>>, <<>>, FALSE, FALSE))
  /\ event' = "defocus"
  /\ UNCHANGED ingestVars
  /\ UNCHANGED exportVars
  /\ Capture(mapRef, filteredClusterRef, clusterRef, selectedStore')
  /\ UNCHANGED <<lastCall, probe>>
  /\ UNCHANGED preFocus
  /\ UNCHANGED <<stores, isLoading, query, filteredStoresRef, clusterRef,
                 filteredClusterRef, mapRef, view>>
  /\ RunPoiEffect(sidebarTab)
  /\ UNCHANGED facetVars

\* An await of the current fetchNearbyData resolves: Promise.all of the two
\* fetches with two OK responses, then the two response.json().
LookupAdvance ==
  /\ lookup \in {"all", "json1"}
  /\ lookup' = IF lookup = "all" THEN "json1" ELSE "json2"
  /\ event' = "await"
  /\ UNCHANGED ingestVars
  /\ UNCHANGED exportVars
  /\ UNCHANGED poiVars
  /\ UNCHANGED facetVars
  /\ UNCHANGED probeVars
  /\ UNCHANGED <<added, removed>>
  /\ KeepPreFocus(view, query)
  /\ UNCHANGED renderVars
  /\ responses' = BothOk
  /\ UNCHANGED <<similarStores, nearbyPlaces, nearbyCounts, nearbyLoading,
                 nearbyError, stale, controllers>>

\* The last await resolves and the results are applied.
LookupSucceed ==
  /\ lookup = "json2"
  /\ lookup' = "idle"
  /\ SetNearby(LookupResolved(NearbyNow, selectedStore.id))
  /\ controllers' = Without(controllers, Len(controllers))
  /\ event' = "resolved"
  /\ UNCHANGED ingestVars
  /\ UNCHANGED exportVars
  /\ UNCHANGED probeVars
  /\ UNCHANGED <<added, removed>>
  /\ KeepPreFocus(view, query)
  /\ UNCHANGED renderVars
  /\ UNCHANGED <<stale, responses>>
  /\ RunPoiEffect(sidebarTab)
  /\ UNCHANGED facetVars

\* An await of the current fetchNearbyData fails: a fetch rejects, a
\* response is not OK or a body does not parse.
LookupFail ==
  /\ lookup # "idle"
  /\ lookup' = "idle"
  /\ responses' \in IF lookup = "all" THEN FailedFetches ELSE {BothOk}
  /\ SetNearby(LookupRejected(NearbyNow, "Error", FALSE))
  /\ controllers' = Without(controllers, Len(controllers))
  /\ event' = "rejected"
  /\ UNCHANGED ingestVars
  /\ UNCHANGED exportVars
  /\ UNCHANGED probeVars
  /\ UNCHANGED <<added, removed>>
  /\ KeepPreFocus(view, query)
  /\ UNCHANGED renderVars
  /\ UNCHANGED stale
  /\ RunPoiEffect(sidebarTab)
  /\ UNCHANGED facetVars

\* The pending await of an aborted fetchNearbyData rejects with AbortError.
StaleSettle ==
  /\ stale > 0
  /\ stale' = stale - 1
  /\ \E i \in DOMAIN controllers :
       /\ Aborted(controllers[i])
       /\ controllers' = Without(controllers, i)
  /\ SetNearby(LookupRejected(NearbyNow, "AbortError", TRUE))
  /\ event' = "aborted"
  /\ UNCHANGED ingestVars
  /\ UNCHANGED exportVars
  /\ UNCHANGED poiVars
  /\ UNCHANGED facetVars
  /\ UNCHANGED probeVars
  /\ UNCHANGED <<added, removed>>
  /\ KeepPreFocus(view, query)
  /\ UNCHANGED renderVars
  /\ UNCHANGED <<lookup, responses>>

\* The pending response.json() of an aborted fetchNearbyData rejects with
\* another error than AbortError: the body had been read to its end when
\* the controller was aborted, so the abort no longer reaches it, and it
\* does not parse.  The catch block looks at the name of the error only.
StaleFail ==
  /\ stale > 0
  /\ stale' = stale - 1
  /\ \E i \in DOMAIN controllers :
       /\ Aborted(controllers[i])
       /\ controllers[i].at \in {"json1", "json2"}
       /\ controllers' = Without(controllers, i)
  /\ SetNearby(LookupRejected(NearbyNow, "SyntaxError", TRUE))
  /\ event' = "late failure"
  /\ UNCHANGED ingestVars
  /\ UNCHANGED exportVars
  /\ UNCHANGED probeVars
  /\ UNCHANGED <<added, removed>>
  /\ KeepPreFocus(view, query)
  /\ UNCHANGED renderVars
  /\ UNCHANGED <<lookup, responses>>
  /\ RunPoiEffect(sidebarTab)
  /\ UNCHANGED facetVars

\* A click on a tab of the sidebar of the selected store: setSidebarTab,
\* then the POI marker effect.
SetSidebarTab(tab) ==
  /\ selectedStore # NoStore
  /\ tab # sidebarTab
  /\ event' = "tab"
  /\ UNCHANGED ingestVars
  /\ UNCHANGED exportVars
  /\ UNCHANGED probeVars
  /\ UNCHANGED <<added, removed>>
  /\ KeepPreFocus(view, query)
  /\ UNCHANGED renderVars
  /\ UNCHANGED lookupVars
  /\ RunPoiEffect(tab)
  /\ UNCHANGED facetVars

\* loadStoresFromCSV() from the fetch to the settled promise.
Ingest ==
  /\ response # NoResponse
  /\ loaded = Unsettled
  /\ loaded' = loadStoresFromCSV(response)
  /\ UNCHANGED <<sheet, response, quoted, raw, tokens>>
  /\ UNCHANGED <<renderVars, lookupVars, historyVars, exportVars, probeVars,
                 poiVars, facetVars>>

\* parseCSVLine(line) on the line that holds the quoted field.
Tokenize ==
  /\ response = NoResponse
  /\ raw = NoRaw
  /\ tokens = NoTokens
  /\ tokens' = [state |-> "done", list |-> parseCSVLine(QuotedLine(quoted))]
  /\ UNCHANGED <<sheet, response, loaded, quoted, raw>>
  /\ UNCHANGED <<renderVars, lookupVars, historyVars, exportVars, probeVars,
                 poiVars, facetVars>>

\* parseCSVLine(line) on a line of any shape.
Scan ==
  /\ raw # NoRaw
  /\ tokens = NoTokens
  /\ tokens' = [state |-> "scanned", list |-> parseCSVLine(raw)]
  /\ UNCHANGED <<sheet, response, loaded, quoted, raw>>
  /\ UNCHANGED <<renderVars, lookupVars, historyVars, exportVars, probeVars,
                 poiVars, facetVars>>

\* The Export CSV button: the click handler up to the first await of
\* buildExportRows.  A call whose key is the cached one returns the cached
\* rows; otherwise the callback of every store reads the POI cache and
\* issues its fetch on a miss, all before any response is handled.
ExportClick ==
  /\ ~ExportDisabled(isExporting, filteredStores(stores, query))
  /\ \E list \in {filteredStores(stores, query)} :
       IF CacheHit(exportCacheRef, exportKey(list))
       THEN /\ exportData' = exportCacheRef.data
            /\ returned' = [called |-> TRUE, cached |-> TRUE, stores |-> list,
                            rows |-> exportCacheRef.data, answers |-> answers,
                            failed |-> {}]
            /\ requested' = <<>>
            /\ UNCHANGED <<isExporting, exporting>>
       ELSE /\ exporting' =
                 [active |-> TRUE, stores |-> list, key |-> exportKey(list),
                  failed |-> {},
                  got |-> [i \in DOMAIN list |->
                             IF list[i].id \in DOMAIN poiCountsCacheRef
                             THEN Got(poiCountsCacheRef[list[i].id])
                             ELSE Waiting]]
            /\ requested' =
                 LET asked == SelectSeq(list,
                                LAMBDA store :
                                  store.id \notin DOMAIN poiCountsCacheRef)
                 IN [i \in DOMAIN asked |-> asked[i].id]
            /\ isExporting' = TRUE
            /\ UNCHANGED <<exportData, returned>>
  /\ UNCHANGED <<poiCountsCacheRef, exportCacheRef, answers>>
  /\ UNCHANGED <<renderVars, lookupVars, historyVars, ingestVars, probeVars,
                 poiVars, facetVars>>

\* The fetch of the store at position i settles: the rest of its callback.
ExportReply(i, reply) ==
  /\ exporting.active
  /\ i \in DOMAIN exporting.got
  /\ exporting.got[i] = Waiting
  /\ poiCountsCacheRef' =
       (exporting.stores[i].id :> PoiCountsOf(reply)) @@ poiCountsCacheRef
  /\ answers' = (exporting.stores[i].id :>
                    Answered(answers, exporting.stores[i].id)
                      \cup {IF FailedReply(reply) THEN NoCounts
                            ELSE reply.counts})
                  @@ answers
  /\ exporting' =
       [exporting EXCEPT !.got[i] = Got(PoiCountsOf(reply)),
                         !.failed = IF FailedReply(reply) THEN @ \cup {i}
                                    ELSE @]
  /\ UNCHANGED <<exportCacheRef, exportData, isExporting, requested, returned>>
  /\ UNCHANGED <<renderVars, lookupVars, historyVars, ingestVars, probeVars,
                 poiVars, facetVars>>

\* Promise.all resolves: the rows are built, cached and returned, and the
\* click handler resets isExporting.
ExportFinish ==
  /\ exporting.active
  /\ \A i \in DOMAIN exporting.got : exporting.got[i].state = "done"
  /\ \E storeRows \in {[i \in DOMAIN exporting.stores |->
                          StoreRow(exporting.stores[i],
                                   exporting.got[i].poiCounts)]} :
       /\ exportData' = storeRows
       /\ exportCacheRef' = [set |-> TRUE, key |-> exporting.key,
                             data |-> storeRows]
       /\ returned' = [called |-> TRUE, cached |-> FALSE,
                       stores |-> exporting.stores, rows |-> storeRows,
                       answers |-> answers, failed |-> exporting.failed]
  /\ isExporting' = FALSE
  /\ exporting' = NoExporting
  /\ UNCHANGED <<poiCountsCacheRef, requested, answers>>
  /\ UNCHANGED <<renderVars, lookupVars, historyVars, ingestVars, probeVars,
                 poiVars, facetVars>>

\* Faulty variant: the click listener reading clusterRef.current.
HandlerIndexFromBase(captured, fcl, cl) == cl

\* The index of the click listener of an aggregate marker: the
\* activeCluster of the pass that created the marker.
HandlerIndex(captured, fcl, cl) == captured

\* A click on an aggregate marker of the map: getClusterExpansionZoom on the
\* captured index, then map.flyTo to the zoom it returns.  The 'move' and
\* 'moveend' events of the flight are ViewportChange steps.
ClickClusterMarker(marker) ==
  /\ marker \in BagToSet(mapMarkers)
  /\ marker.kind = "cluster"
  /\ \E index \in {HandlerIndex(listenerCluster, filteredClusterRef, clusterRef)} :
       lastCall' = [index |-> index, id |-> marker.cluster, view |-> view,
                 zoom |-> getClusterExpansionZoom(index, marker.cluster)]
  /\ event' = "expand"
  /\ UNCHANGED <<added, removed, preFocus>>
  /\ UNCHANGED <<listenerCluster, probe>>
  /\ UNCHANGED <<renderVars, lookupVars, ingestVars, exportVars, poiVars,
                 facetVars>>

\* Point sets for the index alone: up to MaxPoints stores on a few
\* longitudes that are neighbours at some zooms and not at others, and the
\* point sets of the files.
ProbeLons == {1000000, 1003000, 1006000, 1009000}

ProbeSets ==
  PointSets \cup
  UNION {{[i \in 1..n |-> Store(i, ZoomIds[i], lons[i], "mall")] :
            lons \in [1..n -> ProbeLons]} : n \in 1..MaxPoints}

WholeWorld == [west |-> 0, east |-> World]

\* getClusters of one zoom over the whole world and the forEach of the pass
\* over what it returns.
ProbeClusters(zoom) ==
  /\ probe.index # NoIndex
  /\ \E nodes \in {getClusters(probe.index, WholeWorld, zoom)} :
       probe' = [probe EXCEPT !.zoom = zoom, !.nodes = nodes, !.node = 0,
                              !.leaves = <<>>,
                              !.items = AllRenderItems(probe.index, nodes, 1)]
  /\ UNCHANGED <<listenerCluster, lastCall>>
  /\ UNCHANGED <<renderVars, lookupVars, historyVars, ingestVars, exportVars,
                 poiVars, facetVars>>

\* expandCluster on one of the returned clusters.
ProbeExpand(k) ==
  /\ k \in DOMAIN probe.nodes
  /\ probe.nodes[k].cluster
  /\ probe' = [probe EXCEPT !.node = k,
                            !.leaves = expandCluster(probe.index,
                                                     probe.nodes[k].id)]
  /\ UNCHANGED <<listenerCluster, lastCall>>
  /\ UNCHANGED <<renderVars, lookupVars, historyVars, ingestVars, exportVars,
                 poiVars, facetVars>>

Views == (Boxes \cup {NoBounds}) \X HalfZooms
StoreIds == {Catalog[i].id : i \in 1..Len(Catalog)}

Next ==
  \/ \E d \in Datasets, r \in RandStreams : Load(d, r)
  \/ \E q \in Queries, r \in RandStreams : SetQuery(q, r)
  \/ \E v \in Views, r \in RandStreams : ViewportChange(v[1], v[2], r)
  \/ \E m \in BagToSet(mapMarkers) : ClickStoreMarker(m)
  \/ \E id \in StoreIds : SelectSimilar(id)
  \/ \E r \in RandStreams : Defocus(r)
  \/ LookupAdvance
  \/ LookupSucceed
  \/ LookupFail
  \/ StaleSettle
  \/ ExportClick
  \/ \E i \in DOMAIN exporting.got, reply \in PlacesReplies :
       ExportReply(i, reply)
  \/ ExportFinish
  \/ \E m \in BagToSet(mapMarkers) : ClickClusterMarker(m)

Spec == Init /\ [][Next]_vars

\* The index alone: an index is loaded with one of the point sets, then
\* read zoom by zoom.
IndexInit ==
  /\ Mounted
  /\ NoExport
  /\ sheet = PlainSheet
  /\ response = NoResponse
  /\ loaded = Unsettled
  /\ quoted = NoQuoted
  /\ raw = NoRaw
  /\ tokens = NoTokens
  /\ mapRef
  /\ NoPoi
  /\ NoFacets
  /\ listenerCluster = NoIndex
  /\ lastCall = NoCall
  /\ probe \in {[NoProbe EXCEPT !.index = Supercluster(points)] :
                  points \in ProbeSets}

IndexNext ==
  \/ \E zoom \in MinZoom..MaxZoom : ProbeClusters(zoom)
  \/ \E k \in DOMAIN probe.nodes : ProbeExpand(k)

IndexSpec == IndexInit /\ [][IndexNext]_vars

\* The aggregate markers alone: a file whose malls make a large cluster is
\* loaded, the filter and the viewport change and aggregate markers are
\* clicked.
ZoomNext ==
  \/ \E d \in ZoomDatasets, r \in RandStreams : Load(d, r)
  \/ \E q \in Queries, r \in RandStreams : SetQuery(q, r)
  \/ \E v \in Views, r \in RandStreams : ViewportChange(v[1], v[2], r)
  \/ \E m \in BagToSet(mapMarkers) : ClickClusterMarker(m)

ZoomSpec == Init /\ [][ZoomNext]_vars

\* The renderer alone: the responses of the current focus never arrive.  The
\* lookup actions left out change none of renderVars.
RenderNext ==
  \/ \E d \in Datasets, r \in RandStreams : Load(d, r)
  \/ \E q \in Queries, r \in RandStreams : SetQuery(q, r)
  \/ \E v \in Views, r \in RandStreams : ViewportChange(v[1], v[2], r)
  \/ \E m \in BagToSet(mapMarkers) : ClickStoreMarker(m)
  \/ \E r \in RandStreams : Defocus(r)
  \/ StaleSettle

RenderSpec == Init /\ [][RenderNext]_vars

\* The parser alone, before loadStores resolves: either a file is fetched
\* and parsed, or one line is tokenized.
IngestInit ==
  /\ Mounted
  /\ NoExport
  /\ NoProbes
  /\ NoPoi
  /\ NoFacets
  /\ mapRef
  /\ loaded = Unsettled
  /\ tokens = NoTokens
  /\ \/ /\ sheet \in Sheets
        /\ response = Served(CsvText(sheet))
        /\ quoted = NoQuoted
        /\ raw = NoRaw
     \/ /\ sheet = PlainSheet
        /\ response \in OtherResponses
        /\ quoted = NoQuoted
        /\ raw = NoRaw
     \/ /\ sheet = PlainSheet
        /\ response = NoResponse
        /\ quoted \in [value : QuotedValues, before : Neighbours,
                       after : Neighbours]
        /\ raw = NoRaw
     \/ /\ sheet = PlainSheet
        /\ response = NoResponse
        /\ quoted = NoQuoted
        /\ raw \in RawLines

IngestNext ==
  \/ Ingest
  \/ Tokenize
  \/ Scan

IngestSpec == IngestInit /\ [][IngestNext]_vars

\* The export alone: a file of three stores is loaded, the filter changes
\* and the Export CSV button is clicked.
ExportNext ==
  \/ \E d \in ExportDatasets, r \in RandStreams : Load(d, r)
  \/ \E q \in Queries, r \in RandStreams : SetQuery(q, r)
  \/ ExportClick
  \/ \E i \in DOMAIN exporting.got, reply \in PlacesReplies :
       ExportReply(i, reply)
  \/ ExportFinish

ExportSpec == Init /\ [][ExportNext]_vars

\* Every fetch of an export settles (a response or a rejection), and the
\* continuation of Promise.all runs once all callbacks have resolved.
ExportSettle ==
  \E i \in DOMAIN exporting.got, reply \in PlacesReplies : ExportReply(i, reply)

ExportFairSpec == ExportSpec /\ WF_vars(ExportSettle) /\ WF_vars(ExportFinish)

\* The lookups alone: the user neither pans, zooms nor filters.  The actions
\* left out change none of lookupVars.
LookupNext ==
  \/ \E d \in Datasets, r \in RandStreams : Load(d, r)
  \/ \E m \in BagToSet(mapMarkers) : ClickStoreMarker(m)
  \/ \E id \in StoreIds : SelectSimilar(id)
  \/ \E r \in RandStreams : Defocus(r)
  \/ LookupAdvance
  \/ LookupSucceed
  \/ LookupFail
  \/ StaleSettle

LookupSpec == Init /\ [][LookupNext]_vars

\* Every await of a fetchNearbyData settles: the current lookup advances,
\* succeeds or fails, and an aborted one rejects.
LookupFairSpec ==
  /\ LookupSpec
  /\ WF_vars(LookupAdvance \/ LookupSucceed \/ LookupFail)
  /\ WF_vars(StaleSettle)

\* The lookups with a service whose bodies may fail to parse after the
\* controller of their lookup was aborted.
LateFailureNext == LookupNext \/ StaleFail

LateFailureSpec == Init /\ [][LateFailureNext]_vars

\* A change of a checkbox of the filter popup.  A filter holds at most
\* MaxSelected values.
toggleMultiSelectFilter(filterKey, value) ==
  /\ value \in filterOptions(faceted.stores, filterKey)
  /\ Contains(selectedFilters[filterKey], value)
       \/ Len(selectedFilters[filterKey]) < MaxSelected
  /\ selectedFilters' = Toggle(selectedFilters, filterKey, value)
  /\ faceted' = Faceted(faceted.stores, faceted.query, faceted.filterType,
                        selectedFilters')
  /\ UNCHANGED <<renderVars, lookupVars, historyVars, ingestVars, exportVars,
                 probeVars, poiVars>>

\* The "clear all" button of the filter popup.
clearAllMultiFilters ==
  /\ selectedFilters # NoFilters
  /\ selectedFilters' = NoFilters
  /\ faceted' = Faceted(faceted.stores, faceted.query, faceted.filterType,
                        NoFilters)
  /\ UNCHANGED <<renderVars, lookupVars, historyVars, ingestVars, exportVars,
                 probeVars, poiVars>>

\* The search box: setQuery(event.target.value).
SetSearchQuery(q) ==
  /\ q # faceted.query
  /\ faceted' = Faceted(faceted.stores, q, faceted.filterType, selectedFilters)
  /\ UNCHANGED selectedFilters
  /\ UNCHANGED <<renderVars, lookupVars, historyVars, ingestVars, exportVars,
                 probeVars, poiVars>>

\* The select next to the search box: setFilterType, then setQuery('').
SetFilterType(filterType) ==
  /\ filterType # faceted.filterType
  /\ faceted' = Faceted(faceted.stores, <<>>, filterType, selectedFilters)
  /\ UNCHANGED selectedFilters
  /\ UNCHANGED <<renderVars, lookupVars, historyVars, ingestVars, exportVars,
                 probeVars, poiVars>>

\* The filters alone, over a loaded store list.
FilterInit ==
  /\ Mounted
  /\ NoExport
  /\ NoProbes
  /\ NoPoi
  /\ sheet = PlainSheet
  /\ response = NoResponse
  /\ loaded = Unsettled
  /\ quoted = NoQuoted
  /\ raw = NoRaw
  /\ tokens = NoTokens
  /\ mapRef
  /\ selectedFilters = NoFilters
  /\ \E list \in FacetLists :
       faceted = Faceted(list, <<>>, "location_type", NoFilters)

FilterNext ==
  \/ \E filterKey \in FilterKeys :
       \E value \in filterOptions(FacetCatalog, filterKey) :
         toggleMultiSelectFilter(filterKey, value)
  \/ clearAllMultiFilters
  \/ \E q \in FacetQueries : SetSearchQuery(q)
  \/ \E filterType \in FilterTypes : SetFilterType(filterType)

FilterSpec == FilterInit /\ [][FilterNext]_vars

\* The lookups and the tabs of the sidebar, with a similar-stores list that
\* offers two stores.
PoiNext ==
  \/ \E r \in RandStreams : Load(Catalog, r)
  \/ \E m \in BagToSet(mapMarkers) : ClickStoreMarker(m)
  \/ \E id \in {"s1", "s2"} : SelectSimilar(id)
  \/ \E r \in RandStreams : Defocus(r)
  \/ LookupAdvance
  \/ LookupSucceed
  \/ LookupFail
  \/ StaleSettle
  \/ \E tab \in Tabs : SetSidebarTab(tab)

PoiSpec == Init /\ [][PoiNext]_vars

\* ------------------------------------------------------------------------
\* Vocabulary of the properties
\* ------------------------------------------------------------------------
Active == ActiveCluster(filteredClusterRef, clusterRef)

\* updateClusters gets past all its early returns in this state.
CanRender ==
  /\ mapRef
  /\ Active # NoIndex
  /\ selectedStore = NoStore
  /\ Len(filteredStoresRef) > 0
  /\ view.bounds # NoBounds

\* The last handler ran a complete Clustered render pass.
Passed == CanRender /\ event \in {"load", "filter", "viewport", "defocus"}

\* The nodes that pass was given.
Returned == getClusters(Active, view.bounds, Floor(view.zoom))

\* How many of a bag's markers satisfy a condition.
AggregatesOf(bag, clusterId) ==
  BagCardinality([m \in {x \in DOMAIN bag :
                           x.kind = "cluster" /\ x.cluster = clusterId} |-> bag[m]])

StoreMarkersOf(bag, S) ==
  BagCardinality([m \in {x \in DOMAIN bag :
                           x.kind = "store" /\ x.store \in S} |-> bag[m]])

\* The leaves below a cluster, read off the parent ids of the index: a
\* point is below every cluster on its chain of parents.
ParentOf(index, id) ==
  LET hits == UNION {{index.trees[z][k].parent :
                        k \in {j \in 1..Len(index.trees[z]) :
                                 /\ index.trees[z][j].id = id
                                 /\ index.trees[z][j].parent # -1}} :
                     z \in DOMAIN index.trees}
  IN IF hits = {} THEN -1 ELSE CHOOSE h \in hits : TRUE

RECURSIVE Ancestors(_, _)
Ancestors(index, id) ==
  LET parent == ParentOf(index, id)
  IN IF parent = -1 THEN {} ELSE {parent} \cup Ancestors(index, parent)

LeafDescendants(index, clusterId) ==
  {index.points[i] : i \in {j \in 1..Len(index.points) :
                              clusterId \in Ancestors(index, j)}}

\* The keys that carry no Math.random() suffix.
StableKeys(keys) == {k \in keys : k.t # "random"}

NoResults ==
  similarStores = <<>> /\ nearbyPlaces = <<>> /\ nearbyCounts = <<>>

ResultsOf(id) ==
  /\ similarStores = NearbyAlfamarts(id).stores
  /\ nearbyPlaces = NearbyPlaces(id).stores
  /\ nearbyCounts = NearbyPlaces(id).counts

\* ------------------------------------------------------------------------
\* C1: last focus wins.  The settling of a lookup that a later focus change
\* aborted leaves similarStores, nearbyPlaces and nearbyCounts as they are,
\* and once no lookup is pending they are empty when nothing is focused or
\* the lookups of the focused store failed, and otherwise the responses for
\* the focused store's id.
\* ------------------------------------------------------------------------
C1_Settled ==
  (lookup = "idle" /\ stale = 0) =>
     IF selectedStore = NoStore \/ nearbyError THEN NoResults
     ELSE ResultsOf(selectedStore.id)

C2_NoMarkerOutsideTheMap == mapMarkers = Held(clusterMarkersRef)

\* ------------------------------------------------------------------------
\* C3: while a store is focused the map shows exactly one store/cluster
\* marker, the selected marker of the focused store at its coordinate.
\* ------------------------------------------------------------------------
C3_FocusShowsOneMarker ==
  (selectedStore # NoStore /\ mapRef) =>
     /\ mapMarkers = SetToBag({StoreMarker(selectedStore,
                                           selectedStore.google_lon, TRUE)})
     /\ DOMAIN clusterMarkersRef = {SelectedKey(selectedStore)}

\* ------------------------------------------------------------------------
\* C4: while a store is focused, a viewport change and a filter change leave
\* the marker map and the markers on the map as they were.
\* ------------------------------------------------------------------------
C4_FocusFreezesMarkers ==
  [][(selectedStore # NoStore /\ event' \in {"viewport", "filter"}) =>
        UNCHANGED <<clusterMarkersRef, mapMarkers>>]_vars

C4_Witness ==
  /\ selectedStore # NoStore
  /\ event = "viewport"
  /\ view # preFocus.view
  /\ DOMAIN clusterMarkersRef = {SelectedKey(selectedStore)}

\* ------------------------------------------------------------------------
\* C5: defocus runs the Clustered pass at once, and with the viewport and
\* the filter of the moment the focus was set it renders what was rendered
\* then.  As claimed: the same marker map keys.  As amended: the selected
\* marker is gone, the pass creates the markers the last pass before the
\* focus created, and the keys without a random suffix are the same.
\* ------------------------------------------------------------------------
SameAsBeforeFocus ==
  /\ event = "defocus"
  /\ preFocus.valid
  /\ preFocus.view = view
  /\ preFocus.query = query

C6_ThresholdRendering ==
  Passed =>
    \A i \in 1..Len(Returned) :
      LET f == Returned[i]
      IN IF f.cluster /\ f.point_count > ClusterThreshold
         THEN /\ CopiesIn(ClusterMarker(f.id, f.coords, f.point_count), added) = 1
              /\ AggregatesOf(added, f.id) = 1
              /\ StoreMarkersOf(added, LeafDescendants(Active, f.id)) = 0
              /\ ClusterKey(f.id) \in DOMAIN clusterMarkersRef
         ELSE IF f.cluster
         THEN /\ AggregatesOf(added, f.id) = 0
              /\ ClusterKey(f.id) \notin DOMAIN clusterMarkersRef
              /\ \A s \in LeafDescendants(Active, f.id) :
                   StoreMarkersOf(added, {s}) = 1
         ELSE /\ StoreMarkersOf(added, {f.store}) = 1
              /\ CopiesIn(StoreMarker(f.store, f.store.google_lon, FALSE), added) = 1

\* A pass that was given a cluster of ClusterThreshold + 1 stores and points.
C6_Witness ==
  /\ Passed
  /\ \E i \in 1..Len(Returned) :
       Returned[i].cluster /\ Returned[i].point_count = ClusterThreshold + 1
  /\ \E i \in 1..Len(Returned) : ~Returned[i].cluster

\* ------------------------------------------------------------------------
\* C7: expanding a returned cluster of n <= ClusterThreshold stores creates
\* exactly n store markers, one for each of the n stores below it, however
\* deep the sub-clusters nest.
\* ------------------------------------------------------------------------
C7_ExpansionIsExact ==
  Passed =>
    \A i \in 1..Len(Returned) :
      LET f == Returned[i]
          below == LeafDescendants(Active, f.id)
      IN (f.cluster /\ f.point_count <= ClusterThreshold) =>
           /\ Cardinality(below) = f.point_count
           /\ StoreMarkersOf(added, below) = f.point_count
           /\ \A s \in below :
                CopiesIn(StoreMarker(s, s.google_lon, FALSE), added) = 1

\* A pass that expanded a cluster of ClusterThreshold stores whose children
\* are clusters with clusters below them.
C7_Witness ==
  /\ Passed
  /\ \E i \in 1..Len(Returned) :
       /\ Returned[i].cluster
       /\ Returned[i].point_count = ClusterThreshold
       /\ \E c \in Range(getChildren(Active, Returned[i].id)) :
            /\ c.cluster
            /\ \E g \in Range(getChildren(Active, c.id)) : g.cluster

Replayed == CanRender /\ event' = "viewport" /\ view' = view

C10_EmptyFilterEmptyMap ==
  (selectedStore = NoStore /\ Len(filteredStoresRef) = 0) => mapMarkers = EmptyBag

\* ------------------------------------------------------------------------
\* C11: a render pass run while the map does not exist or has no bounds
\* leaves the marker map and the markers on the map as they were.
\* ------------------------------------------------------------------------
PassEvents == {"load", "filter", "viewport", "defocus"}

C11_NoViewportNoOp ==
  [][(event' \in PassEvents /\ (~mapRef \/ view'.bounds = NoBounds)) =>
        UNCHANGED <<clusterMarkersRef, mapMarkers>>]_vars

\* ------------------------------------------------------------------------
\* C12: with a non-empty filtered set the filtered index is the index of
\* that set and is the active index; with an empty filtered set the filtered
\* index is null and the active index is the base index.
\* ------------------------------------------------------------------------
C12_ActiveIndex ==
  /\ filteredStoresRef = filteredStores(stores, query)
  /\ Len(filteredStoresRef) > 0 =>
       /\ filteredClusterRef = Indices[filteredStoresRef]
       /\ Active = filteredClusterRef
  /\ Len(filteredStoresRef) = 0 =>
       /\ filteredClusterRef = NoIndex
       /\ Active = clusterRef

\* A filter that matches nothing, applied after a pass had rendered a
\* filtered set: the base index is there to fall back on.
C12_Witness ==
  /\ event = "filter"
  /\ Len(stores) > 0
  /\ Len(filteredStoresRef) = 0
  /\ clusterRef = Indices[stores]
  /\ filteredClusterRef = NoIndex
  /\ removed # EmptyBag

\* ------------------------------------------------------------------------
\* C13: a focus change aborts the controller of the previous focus in the
\* step that issues the lookups of the new one.  So every controller held
\* before a focus change is aborted after it, at most one unsettled lookup
\* is not aborted, it is the lookup of the current focus, and the two
\* fetches of a lookup are aborted together.
\* ------------------------------------------------------------------------
Live == {i \in DOMAIN controllers : ~Aborted(controllers[i])}

C13_OneLiveLookup ==
  /\ Cardinality(Live) <= 1
  /\ Live # {} <=> lookup # "idle"
  /\ Live # {} => selectedStore # NoStore /\ Live = {Len(controllers)}
  /\ \A i \in DOMAIN controllers : controllers[i].similar = controllers[i].places
  /\ Cardinality(DOMAIN controllers \ Live) = stale

C13_FocusChangeCancels ==
  /\ []C13_OneLiveLookup
  /\ [][event' \in {"focus", "defocus"} =>
          /\ \A i \in DOMAIN controllers : Aborted(controllers'[i])
          /\ Len(controllers') =
               Len(controllers) + (IF event' = "focus" THEN 1 ELSE 0)]_vars

\* The focus moved while the lookups of the previous focus were in flight:
\* an aborted lookup and the live one are both unsettled.
C13_Witness ==
  /\ event = "focus"
  /\ Len(controllers) = 2
  /\ Aborted(controllers[1])
  /\ ~Aborted(controllers[2])
  /\ lookup = "all"

\* ------------------------------------------------------------------------
\* C14: the settling of an aborted lookup changes neither the results nor
\* the error nor the loading flag.
\* ------------------------------------------------------------------------
C14_CancellationIsSilent ==
  [][event' = "aborted" =>
       UNCHANGED <<similarStores, nearbyPlaces, nearbyCounts, nearbyError,
                   nearbyLoading>>]_vars

\* An aborted lookup settled while the lookup of the current focus was
\* loading, over the results of an earlier focus.
C14_Witness ==
  /\ event = "aborted"
  /\ nearbyLoading
  /\ ~nearbyError
  /\ lookup # "idle"
  /\ similarStores # <<>>

\* ------------------------------------------------------------------------
\* C15: when a lookup of the current focus fails, the results are empty,
\* the error is set and loading is over, whatever the other lookup did;
\* results are applied only after both fetches resolved with an OK status,
\* and then they are the responses for the focused store.
\* ------------------------------------------------------------------------
C15_PartialSuccessIsFailure ==
  /\ event = "rejected" => NoResults /\ nearbyError /\ ~nearbyLoading
  /\ event = "resolved" =>
       /\ responses = BothOk
       /\ ResultsOf(selectedStore.id)
       /\ ~nearbyLoading
  /\ ~NoResults => ~nearbyError

\* The nearby_alfamarts fetch succeeded and the nearby_places fetch did not.
C15_Witness ==
  /\ event = "rejected"
  /\ responses.similar = "ok"
  /\ responses.places \in {"notok", "error"}
  /\ NoResults
  /\ nearbyError

\* ------------------------------------------------------------------------
\* Vocabulary of the parser properties
\* ------------------------------------------------------------------------
\* The file of the sheet was fetched and loadStoresFromCSV has settled.
ParsedFile ==
  /\ loaded # Unsettled
  /\ response = Served(CsvText(sheet))

\* The field of a column on the line of row r: undefined when the line was
\* cut before it.
Given(sh, r, column) ==
  LET place == CHOOSE i \in 1..4 : sh.order[i] = column
  IN IF place <= Shown(sh, r) THEN String(sh.rows[r][column]) ELSE Undefined

Finite(number) == number.t = "number"

\* Both coordinate fields of row r parse to finite numbers.
Accepted(sh, r) ==
  /\ Finite(parseFloat(Given(sh, r, 2)))
  /\ Finite(parseFloat(Given(sh, r, 3)))

\* ------------------------------------------------------------------------
\* C16: every record of parseCSV has finite google_lat and google_lon, and
\* the records are those of the rows whose two coordinate fields parse to
\* finite numbers.
\* ------------------------------------------------------------------------
C16_FiniteCoordinates ==
  ParsedFile =>
    /\ \A i \in DOMAIN loaded.value :
         /\ Finite(loaded.value[i]["google_lat"])
         /\ Finite(loaded.value[i]["google_lon"])
    /\ Len(loaded.value) = Cardinality({r \in 1..2 : Accepted(sheet, r)})

\* ------------------------------------------------------------------------
\* C17: a field value without a line feed, written in double quotes with
\* its double quotes doubled, is one field of parseCSVLine with that value,
\* next to the other fields of the line.
\* ------------------------------------------------------------------------
C17_QuoteRoundTrip ==
  tokens.state = "done" =>
    tokens.list = quoted.before \o <<quoted.value>> \o quoted.after

\* "a,""b""" between two other fields yields a,"b".
C17_Witness ==
  /\ tokens.state = "done"
  /\ quoted.value = <<"a", ",", "\"", "b", "\"">>
  /\ Len(tokens.list) = 3
  /\ tokens.list[2] = quoted.value

\* ------------------------------------------------------------------------
\* C18: loadStoresFromCSV never rejects: it resolves with a sequence of
\* Store records, the empty one when fetch rejects, the status is not OK or
\* the body cannot be read.
\* ------------------------------------------------------------------------
C18_IngestionNeverRaises ==
  loaded # Unsettled =>
    /\ loaded.state = "resolved"
    /\ \A i \in DOMAIN loaded.value : DOMAIN loaded.value[i] = StoreFields
    /\ Throws(response) => loaded.value = <<>>
    /\ loaded.value = <<>> \/ (response.ok /\ response.text # <<>>)

C18_Witness ==
  /\ loaded.state = "resolved"
  /\ response.fetch = "rejected"
  /\ loaded.value = <<>>

\* ------------------------------------------------------------------------
\* C19: the records of parseCSV do not depend on the order of the columns:
\* a file of full rows written in any column order parses to the records of
\* the same file written in the order id, google_lat, google_lon, rating.
\* ------------------------------------------------------------------------
C19_ColumnOrderIndependent ==
  (ParsedFile /\ sheet.cut = 4) =>
    loaded.value = parseCSV(CsvText([sheet EXCEPT !.order = Identity]))

\* ------------------------------------------------------------------------
\* C20: a numeric field other than the coordinates is a number in every
\* record, 0 when its column is absent from the header or its field is
\* empty or unparsable, and what such a field holds decides neither whether
\* the row is kept nor any other field of the record.
\* ------------------------------------------------------------------------
WithRating(sh, value) == [sh EXCEPT !.rows[1][4] = value]

C20_NumericDefaults ==
  ParsedFile =>
    LET same == parseCSV(CsvText(WithRating(sheet, <<"4", ".", "5">>)))
    IN /\ \A i \in DOMAIN loaded.value, name \in NumericFields :
            /\ ~Falsy(loaded.value[i][name]) \/ loaded.value[i][name] = Number(0, 0)
            /\ loaded.value[i][name].t \in {"number", "Infinity"}
            /\ name # sheet.names[4] => loaded.value[i][name] = Number(0, 0)
       /\ Len(loaded.value) = Len(same)
       /\ \A i \in DOMAIN loaded.value,
              name \in StoreFields \ {sheet.names[4]} :
            loaded.value[i][name] = same[i][name]
       /\ ( /\ Len(loaded.value) = 2
            /\ sheet.names[4] \in NumericFields
            /\ isNaN(parseFloat(Given(sheet, 1, 4))) ) =>
            loaded.value[1][sheet.names[4]] = Number(0, 0)

\* A kept row whose rating field is unparsable, under a rating column.
C20_Witness ==
  /\ ParsedFile
  /\ Len(loaded.value) = 2
  /\ sheet.names[4] = "rating"
  /\ Given(sheet, 1, 4) = String(<<"x">>)
  /\ loaded.value[1]["rating"] = Number(0, 0)
  /\ loaded.value[2]["rating"] = Number(3, 0)

\* ------------------------------------------------------------------------
\* C21: in every record of the parser the total population, the male and
\* female totals and the 32 age-bin counts are numbers >= 0.
\* ------------------------------------------------------------------------
DemographicFields == NumericFields \ {"rating"}

C21_NonNegativeDemographics ==
  ParsedFile =>
    \A i \in DOMAIN loaded.value, name \in DemographicFields :
      /\ loaded.value[i][name].t \in {"number", "Infinity"}
      /\ loaded.value[i][name].n >= 0

\* ------------------------------------------------------------------------
\* C29: expenditure_band of a record is the row's field in column
\* expenditure_band when the column exists and the field is not empty,
\* otherwise the row's field in column expenditure when that exists and is
\* not empty, otherwise the empty string.
\* ------------------------------------------------------------------------
\* The field of row r in the column of that header name, undefined when the
\* sheet has no such column or the line was cut before it.
Named(sh, r, name) ==
  IF \E c \in 1..4 : sh.names[c] = name
  THEN Given(sh, r, CHOOSE c \in 1..4 : sh.names[c] = name)
  ELSE Undefined

Filled(value) == value.t = "string" /\ value.s # <<>>

Banded(sh, r) ==
  IF Filled(Named(sh, r, "expenditure_band"))
  THEN Named(sh, r, "expenditure_band")
  ELSE IF Filled(Named(sh, r, "expenditure"))
  THEN Named(sh, r, "expenditure")
  ELSE String(<<>>)

C29_ExpenditureFallback ==
  (ParsedFile /\ Len(loaded.value) = 2) =>
    \A r \in 1..2 : loaded.value[r]["expenditure_band"] = Banded(sheet, r)

\* ------------------------------------------------------------------------
\* C30: parseCSV skips empty and whitespace-only lines, returns the accepted
\* records in the order of their lines, at most one for each non-empty data
\* line, and returns the empty sequence for an empty text and for a header
\* without data lines.
\* ------------------------------------------------------------------------
Latitudes(sh) == [r \in 1..2 |-> parseFloat(Given(sh, r, 2))]

C30_LinesInOrder ==
  /\ ParsedFile =>
       /\ loaded.value = parseCSV(CsvText([sheet EXCEPT !.blank = <<>>]))
       /\ Len(loaded.value) <= 2
       /\ \E kept \in SUBSET (1..2) :
            /\ Len(loaded.value) = Cardinality(kept)
            /\ \A i \in DOMAIN loaded.value :
                 LET r == IF i = 2 \/ kept = {2} THEN 2 ELSE 1
                 IN loaded.value[i]["google_lat"] = Latitudes(sheet)[r]
  /\ ( /\ loaded # Unsettled
       /\ response \in {Served(<<>>), Served(HeaderLine(PlainSheet) \o <<"\n">>)} )
       => loaded.value = <<>>

\* Both rows kept, in their order, over a whitespace-only line between them.
C30_Witness ==
  /\ ParsedFile
  /\ sheet.blank = << <<" ">> >>
  /\ Len(loaded.value) = 2
  /\ loaded.value[1]["google_lat"] = Number(7, 0)
  /\ loaded.value[2]["google_lat"] = Number(15, 1)

\* ------------------------------------------------------------------------
\* C28: parseCSVLine is a two-state scanner.  The number of fields is one
\* more than the number of commas read while Unquoted; a comma read while
\* Quoted is kept in the value of its field; a quote that toggles the state
\* is in no value.
\* ------------------------------------------------------------------------
\* What each position of the line is to a two-state scanner that starts
\* Unquoted at position i: a separator, a toggling quote, the first or the
\* second quote of a doubled quote read while Quoted, or text.
RECURSIVE Roles(_, _, _)
Roles(line, i, isQuoted) ==
  IF i > Len(line) THEN <<>>
  ELSE IF line[i] = "\"" /\ isQuoted /\ i < Len(line) /\ line[i + 1] = "\""
  THEN <<"escape", "skipped">> \o Roles(line, i + 2, isQuoted)
  ELSE IF line[i] = "\"" THEN <<"toggle">> \o Roles(line, i + 1, ~isQuoted)
  ELSE IF line[i] = "," /\ ~isQuoted
  THEN <<"separator">> \o Roles(line, i + 1, isQuoted)
  ELSE <<"text">> \o Roles(line, i + 1, isQuoted)

\* The symbols of the line that belong to the value of a field, each field
\* ended by a separator.
RECURSIVE ValuesOf(_, _)
ValuesOf(line, roles) ==
  IF line = <<>> THEN << <<>> >>
  ELSE LET rest == ValuesOf(Tail(line), Tail(roles))
       IN IF Head(roles) = "separator" THEN << <<>> >> \o rest
          ELSE IF Head(roles) \in {"text", "escape"}
          THEN << <<Head(line)>> \o Head(rest) >> \o Tail(rest)
          ELSE rest

C28_CommaSeparatesUnquoted ==
  tokens.state = "scanned" =>
    LET roles == Roles(raw, 1, FALSE)
    IN /\ Len(tokens.list)
            = 1 + Cardinality({i \in DOMAIN roles : roles[i] = "separator"})
       /\ tokens.list = ValuesOf(raw, roles)

\* a,"a,a": one comma read Unquoted, one read Quoted and kept.
C28_Witness ==
  /\ tokens.state = "scanned"
  /\ raw = <<"a", ",", "\"", "a", ",", "a">>
  /\ tokens.list = << <<"a">>, <<"a", ",", "a">> >>

\* ------------------------------------------------------------------------
\* C25: during one export operation at most one nearby_places request is
\* issued per store id, and none for a store id that is in the POI-count
\* cache.
\* ------------------------------------------------------------------------
OneRequestPerId ==
  \A i, j \in DOMAIN requested : requested[i] = requested[j] => i = j

C25_OneRequestPerStore ==
  /\ []OneRequestPerId
  /\ [][requested' # requested =>
          \A i \in DOMAIN requested' :
            requested'[i] \notin DOMAIN poiCountsCacheRef]_vars

\* ------------------------------------------------------------------------
\* C26: buildExportRows returns one row per record of the filtered set, in
\* its order, each with the base fields of its record and, for each of the
\* 18 names of POI_CATEGORY_COLUMNS, the count the service returned for the
\* store in that category, 0 when it returned none.
\* ------------------------------------------------------------------------
ServiceCount(counts, category) ==
  IF category \in DOMAIN counts THEN counts[category] ELSE 0

C26_OneRowPerRecord ==
  returned.called =>
    /\ Len(returned.rows) = Len(returned.stores)
    /\ \A i \in DOMAIN returned.rows :
         /\ returned.rows[i].id = returned.stores[i].id
         /\ returned.rows[i].location_type = returned.stores[i].location_type
         /\ DOMAIN returned.rows[i].poi = Range(POI_CATEGORY_COLUMNS)
         /\ Cardinality(DOMAIN returned.rows[i].poi) = 18
         /\ \E counts \in Answered(returned.answers, returned.stores[i].id) :
              \A category \in Range(POI_CATEGORY_COLUMNS) :
                returned.rows[i].poi[category] = ServiceCount(counts, category)

\* ------------------------------------------------------------------------
\* C22: at every zoom 0..16, with a bbox that contains all points, every
\* point of the index is covered by exactly one node that getClusters
\* returns: the point counts of the clusters and the number of leaves add up
\* to the number of points, and a render pass over such a bbox represents
\* every store of the active set exactly once.
\* ------------------------------------------------------------------------
Covered(index, node) ==
  IF node.cluster THEN LeafDescendants(index, node.id) ELSE {node.store}

RECURSIVE Weight(_)
Weight(nodes) ==
  IF nodes = <<>> THEN 0
  ELSE (IF Head(nodes).cluster THEN Head(nodes).point_count ELSE 1)
         + Weight(Tail(nodes))

\* The rendered items that stand for a store: its own item, and the
\* aggregate items of the clusters above it.
Representing(index, items, store) ==
  {j \in DOMAIN items :
     IF items[j].how = "aggregate"
     THEN store \in LeafDescendants(index, items[j].f.id)
     ELSE items[j].f.store = store}

ReturnedIds(index, vw) ==
  {node.id : node \in {x \in Range(getClusters(index, vw.bounds, Floor(vw.zoom))) :
                         x.cluster}}

\* The aggregate markers on the map carry ids the active index returned for
\* the viewport, their listeners hold that index, and the store markers a
\* pass made by expanding clusters are for stores of that index.
IdsOfActiveIndex ==
  /\ \A m \in BagToSet(mapMarkers) :
       m.kind = "cluster" =>
         /\ listenerCluster = Active
         /\ m.cluster \in ReturnedIds(Active, view)
  /\ Passed =>
       \A m \in BagToSet(added) :
         m.kind = "store" => m.store \in Range(Active.points)

C24_IdsStayWithTheirIndex ==
  /\ []IdsOfActiveIndex
  /\ [][lastCall' # lastCall =>
          /\ lastCall'.index = Active
          /\ lastCall'.id \in ReturnedIds(Active, view)
          /\ lastCall'.zoom \in (MinZoom + 1)..(MaxZoom + 1)]_vars

\* An aggregate marker of the filtered index was clicked, after the filter
\* had replaced the index of all stores as the active one.
C24_Witness ==
  /\ lastCall # NoCall
  /\ query = "mall"
  /\ filteredClusterRef # clusterRef
  /\ lastCall.index = filteredClusterRef
  /\ lastCall.id \notin ReturnedIds(clusterRef, view)

\* ------------------------------------------------------------------------
\* C27: a change of the filter replaces the filtered list and the filtered
\* index before the render pass it triggers: in Clustered state, after the
\* change, every store marker on the map is for a store of the new filtered
\* set and every aggregate marker is a cluster of the new active index.
\* ------------------------------------------------------------------------
C27_MarkersOfNewFilter ==
  (event = "filter" /\ selectedStore = NoStore) =>
    /\ filteredStoresRef = filteredStores(stores, query)
    /\ filteredClusterRef = FilteredIndex(filteredStoresRef)
    /\ \A m \in BagToSet(mapMarkers) :
         /\ m.kind = "store" => m.store \in Range(filteredStoresRef)
         /\ m.kind = "cluster" => m.cluster \in ReturnedIds(Active, view)

\* ------------------------------------------------------------------------
\* C35: an export always completes: a store whose nearby_places request
\* rejects or returns a response that is not OK still has its row, with the
\* count 0 under every POI category, buildExportRows resolves, and
\* isExporting, once true, becomes false again.
\* ------------------------------------------------------------------------
ZeroCounts(row) == \A category \in DOMAIN row.poi : row.poi[category] = 0

FailedStoresExported ==
  returned.called /\ ~returned.cached =>
    \A i \in returned.failed :
      /\ i \in DOMAIN returned.rows
      /\ returned.rows[i].id = returned.stores[i].id
      /\ DOMAIN returned.rows[i].poi = Range(POI_CATEGORY_COLUMNS)
      /\ ZeroCounts(returned.rows[i])

C35_ExportCompletes ==
  /\ []FailedStoresExported
  /\ [][exporting.active /\ ~exporting'.active =>
          ~isExporting' /\ returned'.called]_vars
  /\ (isExporting ~> ~isExporting)

\* An export has finished in which one store's request failed and another
\* store's request brought counts.
C35_Witness ==
  /\ returned.called
  /\ ~returned.cached
  /\ ~isExporting
  /\ returned.failed # {}
  /\ \E j \in DOMAIN returned.rows \ returned.failed :
       ~ZeroCounts(returned.rows[j])

\* ------------------------------------------------------------------------
\* C36: an export for the same set of store ids as the export before it
\* returns the rows of that export and issues no request, and an export
\* that issues requests issues them only for store ids that are not in the
\* POI-count cache.
\* ------------------------------------------------------------------------
IdSet(list) == {list[i].id : i \in DOMAIN list}

C37_OneExportInFlight ==
  /\ [](isExporting <=> exporting.active)
  /\ [][isExporting =>
          /\ requested' = requested
          /\ exporting'.active =>
               /\ exporting'.stores = exporting.stores
               /\ exporting'.key = exporting.key
               /\ \A i \in DOMAIN exporting.got :
                    exporting.got[i].state = "done" =>
                      exporting'.got[i] = exporting.got[i]
          /\ returned' # returned =>
               ~exporting'.active /\ ~returned'.cached]_vars
  /\ [][~isExporting /\ Len(filteredStores(stores, query)) = 0 =>
          UNCHANGED exportVars]_vars

\* An export is in flight, one of its requests has settled, and the
\* filtered set is no longer the one it was started for.
C37_Witness ==
  /\ isExporting
  /\ Len(filteredStores(stores, query)) # 0
  /\ filteredStores(stores, query) # exporting.stores
  /\ \E i \in DOMAIN exporting.got : exporting.got[i].state = "done"
  /\ \E i \in DOMAIN exporting.got : exporting.got[i].state = "waiting"

\* ------------------------------------------------------------------------
\* C33: nearbyLoading is true only while a lookup that was not aborted is
\* in flight, it turns true only at a focus change, and when every await
\* settles it becomes false unless the focus changes again.
\* ------------------------------------------------------------------------
LoadingOnlyInFlight == nearbyLoading => lookup # "idle"

C33_LoadingSettles ==
  /\ []LoadingOnlyInFlight
  /\ [][~nearbyLoading /\ nearbyLoading' => event' = "focus"]_vars
  /\ ((nearbyLoading /\ event # "focus")
        ~> (~nearbyLoading \/ event = "focus"))

\* The lookups of a second focus have succeeded and the aborted lookup of
\* the first focus has settled after them.
C33_Witness ==
  /\ event = "aborted"
  /\ lookup = "idle" /\ stale = 0
  /\ selectedStore # NoStore
  /\ ~nearbyLoading
  /\ ResultsOf(selectedStore.id)

\* ------------------------------------------------------------------------
\* C34: the failure, other than by cancellation, of a lookup that a later
\* focus change has superseded leaves nearbyError, similarStores,
\* nearbyPlaces and nearbyCounts as they are, and a focus change clears
\* nearbyError.
\* ------------------------------------------------------------------------
C34_SupersededFailureIsSilent ==
  /\ [][event' = "late failure" =>
          UNCHANGED <<nearbyError, similarStores, nearbyPlaces,
                      nearbyCounts>>]_vars
  /\ [][event' = "focus" => ~nearbyError']_vars

\* ------------------------------------------------------------------------
\* C31: while a store is focused, every POI marker on the map is a marker
\* of a place of the nearby-places response for the focused store.
\* ------------------------------------------------------------------------
C31_PoiMarkersOfFocusedStore ==
  selectedStore # NoStore =>
    \A m \in BagToSet(poiMarkers) : m.place.near = selectedStore.id

\* ------------------------------------------------------------------------
\* C32: POI markers are held in poiMarkersRef only while a store is focused
\* and the tab is 'nearby', every POI marker on the map is held in
\* poiMarkersRef, and with no store focused no POI marker is on the map.
\* ------------------------------------------------------------------------
C32_PoiMarkersOnlyOnNearbyTab ==
  /\ poiMarkersRef # NoPoiMarkers =>
       selectedStore # NoStore /\ sidebarTab = "nearby"
  /\ poiMarkers = Held(poiMarkersRef)
  /\ selectedStore = NoStore => poiMarkers = EmptyBag

\* ------------------------------------------------------------------------
\* C38: filteredStores is the subsequence, in the order of stores, of the
\* stores that match the text query when it is not blank and that, for each
\* of the four filters, either find the filter empty or have their trimmed
\* value among its selected values; with a blank query and nothing
\* selected it is stores.
\* ------------------------------------------------------------------------
Blank(q) == \A i \in DOMAIN q : q[i] \in WhiteSpace

Passes(store) ==
  /\ Blank(faceted.query)
       \/ MatchesSearch(store, toLowerCase(trim(faceted.query)),
                        faceted.filterType)
  /\ \A filterKey \in FilterKeys :
       \/ selectedFilters[filterKey] = <<>>
       \/ TrimmedFacet(store, filterKey) \in Range(selectedFilters[filterKey])

Passing == {i \in DOMAIN faceted.stores : Passes(faceted.stores[i])}

====
